---- MODULE Spec2Model ----
(***************************************************************************)
(* Tool orchestration and confirmation pipeline of the Nickel assistant    *)
(* backend: the keyword classifier (app/orchestrator.py), the chat         *)
(* planner and executor (app/chat.py), the pending-action store            *)
(* (app/pending_actions.py), the dispatch of confirmed actions             *)
(* (app/actions.py) and the HTTP routes (app/main.py).                     *)
(*                                                                         *)
(* Every request is served by a worker thread (FastAPI runs the            *)
(* synchronous routes in a thread pool); a worker walks through its        *)
(* handler one step at a time, a step being a stretch of code that touches *)
(* the shared stores at most once.                                         *)
(***************************************************************************)
EXTENDS Integers, Sequences, FiniteSets, TLC

\* Python's None, and a key that a dict does not hold (dict.get gives None).
Null == "None"

\* ------------------------------------------------------------------ bounds
\* Pending actions ever created in one run (uuid4 never repeats).
MaxActions == 2

\* The action identifiers the store can hand out.
Ids == 1..MaxActions

\* An action identifier the store never hands out.
UnknownId == MaxActions + 1

\* Worker threads serving requests.
Workers == {"w1", "w2"}

\* Opaque payload mappings sent by callers or proposed by the model.
Payloads == {"p1", "p2"}

\* Response texts of the model.
ResponseTexts == {"r1"}

\* JSON values of the "confirmed" field, written as Python shows them.
ConfirmedValues == {"True", "False", "'yes'", "1", Null}

\* ------------------------------------------------- app/orchestrator.py
\* Confidence is kept in hundredths: 0.75 is 75.
HIGH_CONFIDENCE_THRESHOLD == 75

OrchestrationDecision(tool, reason, confidence) ==
    [tool |-> tool, reason |-> reason, confidence |-> confidence]

\* Altered is_high_confidence: `decision.confidence > _HIGH_CONFIDENCE_THRESHOLD`.
is_high_confidence_strictly(decision) ==
    decision.confidence > HIGH_CONFIDENCE_THRESHOLD

is_high_confidence(decision) ==
    decision.confidence >= HIGH_CONFIDENCE_THRESHOLD

\* A message is the set of its words. str.lower maps a word to its lower
\* case (the words of the model that are not lower case already).
Lower(word) ==
    CASE word = "EMAIL" -> "email"
      [] word = "Enviar" -> "enviar"
      [] OTHER -> word

\* `keyword in text` is substring containment: the classifier keywords that
\* occur inside a (lower-case) word, the word itself included.
Fragments(word) ==
    {word} \cup
        CASE word = "tarefas" -> {"tarefa"}
          [] word \in {"notas", "anotação", "anotacoes"} -> {"nota"}
          [] word = "próxima" -> {"próxim"}
          [] word = "remarcar" -> {"marcar"}
          [] word = "agendar" -> {"agenda"}
          [] word = "conversar" -> {"ver"}
          [] OTHER -> {}

\* `any(keyword in text for keyword in keywords)`
AnyIn(text, keywords) == \E word \in text : Fragments(word) \cap keywords # {}

mentions_email(text) == AnyIn(text, {"email", "e-mail", "gmail", "mensagem"})
mentions_search(text) == AnyIn(text, {"buscar", "procurar", "pesquisar", "encontr"})
mentions_draft(text) == AnyIn(text, {"rascunho", "draft", "esboço"})
mentions_send(text) == AnyIn(text, {"enviar", "mande", "dispare", "envie"})
mentions_read(text) == AnyIn(text, {"ler", "abrir", "mostrar", "ver"})
mentions_calendar(text) == AnyIn(text, {"agenda", "calendario", "calendário"})
mentions_list(text) == AnyIn(text, {"listar", "mostrar", "ver", "próxim"})
mentions_create(text) == AnyIn(text, {"criar", "agendar", "marcar"})
mentions_modify(text) == AnyIn(text, {"alterar", "mudar", "remarcar", "editar"})
mentions_notes(text) == AnyIn(text, {"nota", "notas", "anotação", "anotacoes"})
mentions_tasks(text) == AnyIn(text, {"tarefa", "tarefas", "to-do", "todo"})
mentions_spotify(text) == AnyIn(text, {"spotify", "música", "musica", "som"})
mentions_play(text) == AnyIn(text, {"tocar", "play", "reproduzir", "iniciar"})
mentions_pause(text) == AnyIn(text, {"pausar", "pause", "parar"})
mentions_skip(text) == AnyIn(text, {"pular", "próxima", "proxima", "skip"})

\* Altered appends: every pair carries the weight of the threshold.
MatchAtThreshold(cond, tool, reason, confidence) ==
    IF cond THEN << <<tool, reason, HIGH_CONFIDENCE_THRESHOLD>> >> ELSE << >>

\* matched_tools.append((tool, reason, confidence)) when cond holds.
Match(cond, tool, reason, confidence) ==
    IF cond THEN << <<tool, reason, confidence>> >> ELSE << >>

matched_tools(text) ==
       Match(mentions_email(text) /\ mentions_send(text),
             "email.send", "email_send_keyword", 85)
    \o Match(mentions_email(text) /\ mentions_draft(text),
             "email.draft", "email_draft_keyword", 85)
    \o Match(mentions_email(text) /\ mentions_read(text),
             "email.read", "email_read_keyword", 80)
    \o Match(mentions_email(text) /\ mentions_search(text),
             "email.search", "email_search_keyword", 80)
    \o Match(mentions_calendar(text) /\ mentions_modify(text),
             "calendar.modify_event", "calendar_modify_keyword", 85)
    \o Match(mentions_calendar(text) /\ mentions_create(text),
             "calendar.create_event", "calendar_create_keyword", 85)
    \o Match(mentions_calendar(text) /\ mentions_list(text),
             "calendar.list_events", "calendar_list_keyword", 80)
    \o Match(mentions_notes(text) /\ mentions_create(text),
             "notes.create", "notes_create_keyword", 80)
    \o Match(mentions_tasks(text) /\ mentions_create(text),
             "tasks.create", "tasks_create_keyword", 80)
    \o Match(mentions_tasks(text) /\ mentions_list(text),
             "tasks.list", "tasks_list_keyword", 75)
    \o Match(mentions_spotify(text) /\ mentions_pause(text),
             "spotify.pause", "spotify_pause_keyword", 85)
    \o Match(mentions_spotify(text) /\ mentions_skip(text),
             "spotify.skip", "spotify_skip_keyword", 85)
    \o Match(mentions_spotify(text) /\ mentions_play(text),
             "spotify.play", "spotify_play_keyword", 85)

\* Altered lines 59-65: of several matches the first one is returned.
decide_tool_first_match(message) ==
    LET matched == matched_tools({Lower(word) : word \in message}) IN
    IF Len(matched) = 0
    THEN OrchestrationDecision(Null, <<"no_tool_match">>, 0)
    ELSE OrchestrationDecision(matched[1][1], <<matched[1][2]>>, matched[1][3])

\* Altered lines 56-57: no match is reported like an ambiguous one, at 0.45.
decide_tool_unsure(message) ==
    LET matched == matched_tools({Lower(word) : word \in message}) IN
    IF Len(matched) = 0
    THEN OrchestrationDecision(Null, <<"no_tool_match">>, 45)
    ELSE IF Len(matched) > 1
    THEN OrchestrationDecision(
             Null,
             <<"ambiguous_tool_match">> \o [i \in 1..Len(matched) |-> matched[i][1]],
             45)
    ELSE OrchestrationDecision(matched[1][1], <<matched[1][2]>>, matched[1][3])

\* The reason of an ambiguous decision, "ambiguous_tool_match:" followed by
\* the comma-joined tools, is kept as the prefix and the list that is joined.
decide_tool(message) ==
    LET normalized == {Lower(word) : word \in message}
        matched == matched_tools(normalized)
    IN
    IF Len(matched) = 0
    THEN OrchestrationDecision(Null, <<"no_tool_match">>, 0)
    ELSE IF Len(matched) > 1
    THEN OrchestrationDecision(
             Null,
             <<"ambiguous_tool_match">> \o [i \in 1..Len(matched) |-> matched[i][1]],
             45)
    ELSE OrchestrationDecision(matched[1][1], <<matched[1][2]>>, matched[1][3])

\* ------------------------------------------------------------ app/chat.py
CONFIRMATION_REQUIRED_TOOLS ==
    {"email.send", "calendar.create_event", "calendar.modify_event",
     "notes.create", "tasks.create"}

ToolConfig(handler, requires_confirmation) ==
    [handler |-> handler, requires_confirmation |-> requires_confirmation]

TOOL_HANDLERS ==
    [tool \in {"email.search", "email.read", "email.draft", "email.send",
               "calendar.list_events", "calendar.create_event",
               "calendar.modify_event", "notes.create", "tasks.create",
               "tasks.list", "spotify.play", "spotify.pause", "spotify.skip"} |->
        CASE tool = "email.search" -> ToolConfig("email_search", FALSE)
          [] tool = "email.read" -> ToolConfig("email_read", FALSE)
          [] tool = "email.draft" -> ToolConfig("email_draft", FALSE)
          [] tool = "email.send" -> ToolConfig(Null, TRUE)
          [] tool = "calendar.list_events" -> ToolConfig("calendar_list", FALSE)
          [] tool = "calendar.create_event" -> ToolConfig(Null, TRUE)
          [] tool = "calendar.modify_event" -> ToolConfig(Null, TRUE)
          [] tool = "notes.create" -> ToolConfig(Null, TRUE)
          [] tool = "tasks.create" -> ToolConfig(Null, TRUE)
          [] tool = "tasks.list" -> ToolConfig("list_tasks", FALSE)
          [] tool = "spotify.play" -> ToolConfig("spotify_play", FALSE)
          [] tool = "spotify.pause" -> ToolConfig("spotify_pause", FALSE)
          [] tool = "spotify.skip" -> ToolConfig("spotify_skip", FALSE)]

ToolIds == DOMAIN TOOL_HANDLERS

\* The tool whose side effect each handler function carries out.
HandlerTool(handler) ==
    CASE handler = "email_search" -> "email.search"
      [] handler = "email_read" -> "email.read"
      [] handler = "email_draft" -> "email.draft"
      [] handler = "email_send" -> "email.send"
      [] handler = "calendar_list" -> "calendar.list_events"
      [] handler = "create_event" -> "calendar.create_event"
      [] handler = "modify_event" -> "calendar.modify_event"
      [] handler = "create_note" -> "notes.create"
      [] handler = "create_task" -> "tasks.create"
      [] handler = "list_tasks" -> "tasks.list"
      [] handler = "spotify_play" -> "spotify.play"
      [] handler = "spotify_pause" -> "spotify.pause"
      [] handler = "spotify_skip" -> "spotify.skip"

\* dict.get(key): the value, or None when the key is missing.
Get(d, key) == IF key \in DOMAIN d THEN d[key] ELSE Null

\* The "action" value of a model reply or of a plan, by its Python shape:
\* None, an empty dict, a non-empty dict with its tool and payload (tool is
\* None when the key is missing), or a value that is no dict (a string).
NoAction == [kind |-> "none"]
EmptyAction == [kind |-> "empty", tool |-> Null, payload |-> "{}"]
NonDictAction == [kind |-> "nondict"]
DictAction(tool, payload) == [kind |-> "dict", tool |-> tool, payload |-> payload]

Truthy(action) == action.kind \in {"dict", "nondict"}
IsDict(action) == action.kind \in {"dict", "empty"}

CLARIFICATION_PROMPT == "Encontrei um conflito na interpretacao do pedido. Pode confirmar a acao desejada?"

AuditEvent(tool, status, payload, action_id) ==
    [tool |-> tool, status |-> status, payload |-> payload, action_id |-> action_id]

\* plan_chat, lines 98-99: the tool the model is forced to.
ForcedTool(decision) ==
    IF is_high_confidence(decision) THEN decision.tool ELSE Null

\* Altered line 114: the disagreement is never detected, the model's tool wins.
MismatchIgnored(forced_tool, tool) == FALSE

\* Altered line 114: `if tool != forced_tool`, which also blocks a request
\* on which the classifier has no opinion.
MismatchWithoutOpinion(forced_tool, tool) == tool # forced_tool

\* plan_chat, line 114: `if forced_tool and tool != forced_tool`.
IsMismatch(forced_tool, tool) == forced_tool # Null /\ tool # forced_tool

\* plan_chat, line 141: `if decision.tool is None and tool`.
IsLowConfidenceAction(decision, tool) == decision.tool = Null /\ tool # Null

MismatchEvent(message, decision, forced_tool, tool) ==
    AuditEvent("orchestrator.mismatch", "fallback",
               [message |-> message,
                decision_tool |-> decision.tool,
                decision_reason |-> decision.reason,
                decision_confidence |-> decision.confidence,
                forced_tool |-> forced_tool,
                llm_tool |-> tool],
               0)

MismatchPlan(decision, tool) ==
    [status |-> "requires_clarification",
     response |-> CLARIFICATION_PROMPT,
     fallback |-> "tool_mismatch",
     orchestration |->
        [decision |-> [tool |-> decision.tool, reason |-> decision.reason,
                       confidence |-> decision.confidence],
         llm_tool |-> tool]]

LowConfidenceEvent(message, decision, tool) ==
    AuditEvent("orchestrator.low_confidence_action", "observed",
               [message |-> message,
                decision_reason |-> decision.reason,
                decision_confidence |-> decision.confidence,
                llm_tool |-> tool],
               0)

\* _compute_confidence, in hundredths.
compute_confidence(requested_tool, action_tool) ==
    IF requested_tool # Null /\ action_tool = requested_tool THEN 95
    ELSE IF requested_tool # Null /\ action_tool = Null THEN 35
    ELSE IF requested_tool = Null /\ action_tool # Null THEN 65
    ELSE 80

\* plan_chat, lines 181-186: the plan when the reply's action is falsy.
NoActionPlan(decision, response_text, action) ==
    [response |-> response_text,
     action |-> IF IsDict(action) THEN action ELSE NoAction,
     confidence |->
        compute_confidence(decision.tool, IF IsDict(action) THEN action.tool ELSE Null),
     requires_confirmation |->
        IsDict(action) /\ action.tool \in CONFIRMATION_REQUIRED_TOOLS]

PendingPlan(response_text, summary) ==
    [status |-> "pending_confirmation", response |-> response_text,
     pending_action |-> summary]

\* Altered lines 175-179: the response of plan_chat still carries the
\* action whose handler it has run.
ToolResultPlanWithAction(response_text, tool_result) ==
    [status |-> "ok", response |-> response_text, tool_result |-> tool_result,
     action |-> DictAction(HandlerTool(tool_result.data[1]), tool_result.data[2])]

\* plan_chat, lines 175-179: the response once the handler has returned.
ToolResultPlan(response_text, tool_result) ==
    [status |-> "ok", response |-> response_text, tool_result |-> tool_result]

\* What a handler returns when it succeeds.
ToolResult(handler, payload) == [status |-> "ok", data |-> <<handler, payload>>]

\* --------------------------------------------------------- app/actions.py
\* execute_action: the handler a confirmed action is handed to, None when
\* the chain of tests ends in the 501 action_not_implemented.
execute_action(tool) ==
    CASE tool = "calendar.create_event" -> "create_event"
      [] tool = "calendar.modify_event" -> "modify_event"
      [] tool = "email.send" -> "email_send"
      [] tool = "notes.create" -> "create_note"
      [] OTHER -> Null

(***************************************************************************)
(* plan_chat up to its first access to a store or a handler, as the step   *)
(* it asks for: "error" (HTTPException code), "plan" (return the plan),    *)
(* "confirm" (require_confirmation) or "handler" (call the tool handler). *)
(* `events` are the audit events recorded on the way.                      *)
(***************************************************************************)
PlanStep(next, events, code, plan, tool, payload, handler) ==
    [next |-> next, events |-> events, code |-> code, plan |-> plan,
     tool |-> tool, payload |-> payload, handler |-> handler]

NoPlan == [response |-> Null]

\* Altered lines 166-174: a tool that requires confirmation is executed at
\* once, by the handler execute_action knows for it.
PlanDispatchWithoutConfirmation(events, tool, action_payload) ==
    IF tool \notin DOMAIN TOOL_HANDLERS
    THEN PlanStep("error", events, "unsupported_tool", NoPlan, tool, action_payload, Null)
    ELSE PlanStep("handler", events, Null, NoPlan, tool, action_payload,
                  IF TOOL_HANDLERS[tool].requires_confirmation
                  THEN execute_action(tool)
                  ELSE TOOL_HANDLERS[tool].handler)

\* Altered lines 166-174: every tool of the dispatch table is queued for
\* confirmation, whatever its requires_confirmation says.
PlanDispatchAlwaysConfirming(events, tool, action_payload) ==
    IF tool \notin DOMAIN TOOL_HANDLERS
    THEN PlanStep("error", events, "unsupported_tool", NoPlan, tool, action_payload, Null)
    ELSE PlanStep("confirm", events, Null, NoPlan, tool, action_payload, Null)

\* plan_chat, lines 153-179: dispatch of the accepted tool.
PlanDispatch(events, tool, action_payload) ==
    IF tool \notin DOMAIN TOOL_HANDLERS
    THEN PlanStep("error", events, "unsupported_tool", NoPlan, tool, action_payload, Null)
    ELSE IF TOOL_HANDLERS[tool].requires_confirmation
    THEN PlanStep("confirm", events, Null, NoPlan, tool, action_payload, Null)
    ELSE PlanStep("handler", events, Null, NoPlan, tool, action_payload,
                  TOOL_HANDLERS[tool].handler)

plan_chat(message, llm_response) ==
    LET decision == decide_tool(message)
        forced_tool == ForcedTool(decision)
        action == llm_response.action
        response_text == llm_response.response
    IN
    IF Truthy(action)
    THEN IF ~IsDict(action)
         \* action.get on a value that is no dict: AttributeError
         THEN PlanStep("error", << >>, "internal_server_error", NoPlan, Null, Null, Null)
         ELSE IF IsMismatch(forced_tool, action.tool)
         THEN PlanStep("plan",
                       <<MismatchEvent(message, decision, forced_tool, action.tool)>>,
                       Null, MismatchPlan(decision, action.tool), Null, Null, Null)
         ELSE PlanDispatch(
                  IF IsLowConfidenceAction(decision, action.tool)
                  THEN <<LowConfidenceEvent(message, decision, action.tool)>>
                  ELSE << >>,
                  action.tool, action.payload)
    ELSE PlanStep("plan", << >>, Null,
                  NoActionPlan(decision, response_text, action), Null, Null, Null)

(***************************************************************************)
(* execute_chat_plan, as the step it asks for: "return" (a response),      *)
(* "error", "handler" (call the tool handler and return its result) or     *)
(* "confirm" (require_confirmation).                                       *)
(***************************************************************************)
ExecStep(next, code, result, tool, payload, handler) ==
    [next |-> next, code |-> code, result |-> result, tool |-> tool,
     payload |-> payload, handler |-> handler]

NoResult == [status |-> Null]

execute_chat_plan(payload) ==
    LET action == IF "action" \in DOMAIN payload THEN payload.action ELSE NoAction
        response_text == IF "response" \in DOMAIN payload THEN payload.response ELSE ""
        tool == action.tool
        handler(h) == ExecStep("handler", Null, NoResult, tool, action.payload, h)
        confirm == ExecStep("confirm", Null, NoResult, tool, action.payload, Null)
    IN
    IF action.kind = "none"
    THEN ExecStep("return", Null, [status |-> "ok", response |-> response_text],
                  Null, Null, Null)
    ELSE IF ~IsDict(action)
    THEN ExecStep("error", "invalid_action", NoResult, Null, Null, Null)
    ELSE CASE tool = "email.search" -> handler("email_search")
           [] tool = "email.read" -> handler("email_read")
           [] tool = "email.draft" -> handler("email_draft")
           [] tool = "email.send" -> confirm
           [] tool = "calendar.list_events" -> handler("calendar_list")
           [] tool = "calendar.create_event" -> confirm
           [] tool = "calendar.modify_event" -> confirm
           [] tool = "notes.create" -> confirm
           [] tool = "tasks.create" -> confirm
           [] tool = "tasks.list" -> handler("list_tasks")
           [] tool = "spotify.play" -> handler("spotify_play")
           [] tool = "spotify.pause" -> handler("spotify_pause")
           [] tool = "spotify.skip" -> handler("spotify_skip")
           [] OTHER -> ExecStep("error", "unsupported_tool", NoResult, Null, Null, Null)

\* ------------------------------------------------------------ app/main.py
\* The /tools/... routes: the handler the route calls, or None when the
\* route calls require_confirmation.
RouteTools ==
    {"calendar.list_events", "email.search", "email.read",
     "calendar.create_event", "calendar.modify_event", "email.draft",
     "email.send", "notes.create", "tasks.create", "tasks.list",
     "spotify.play", "spotify.pause", "spotify.skip"}

RouteHandler(tool) ==
    CASE tool = "calendar.list_events" -> "calendar_list"
      [] tool = "email.search" -> "email_search"
      [] tool = "email.read" -> "email_read"
      [] tool = "calendar.create_event" -> Null
      [] tool = "calendar.modify_event" -> Null
      [] tool = "email.draft" -> "email_draft"
      [] tool = "email.send" -> Null
      [] tool = "notes.create" -> Null
      [] tool = "tasks.create" -> Null
      [] tool = "tasks.list" -> "list_tasks"
      [] tool = "spotify.play" -> "spotify_play"
      [] tool = "spotify.pause" -> "spotify_pause"
      [] tool = "spotify.skip" -> "spotify_skip"

\* Altered line 221 / 241: `bool(payload.get("confirmed"))`.
IsTruthy(value) == value \in {"True", "'yes'", "1"}

\* confirm_pending_action / cancel_pending_action, line 221 / 241:
\* `payload.get("confirmed") is True`.
IsLiteralTrue(value) == value = "True"

\* A call of one of the configure_* functions with the path it is given.
Configure(store, path) == [store |-> store, path |-> path]

\* Path(value) if value else None
PathOf(value) == IF value \in {Null, ""} THEN Null ELSE value

\* The function main.py defines first under the name configure_stores
\* (lines 34-48), by the calls it makes, in order.
configure_stores_first(settings) ==
    <<Configure("pending", PathOf(settings.pending_actions_path)),
      Configure("notes", PathOf(settings.notes_store_path)),
      Configure("tasks", PathOf(settings.tasks_store_path)),
      Configure("memory", PathOf(settings.memory_store_path)),
      Configure("audit", PathOf(settings.audit_store_path))>>

\* The function main.py defines second under the same name (lines 51-68),
\* the one the name configure_stores is bound to, by the calls it makes.
configure_stores(settings) ==
    <<Configure("pending", PathOf(settings.pending_actions_path)),
      Configure("notes", PathOf(settings.notes_store_path)),
      Configure("tasks", PathOf(settings.tasks_store_path)),
      Configure("memory", PathOf(settings.memory_store_path)),
      Configure("pending", PathOf(settings.pending_actions_path)),
      Configure("notes", PathOf(settings.notes_store_path)),
      Configure("tasks", PathOf(settings.tasks_store_path)),
      Configure("pending", PathOf(settings.pending_actions_path)),
      Configure("notes", PathOf(settings.notes_store_path))>>

\* ------------------------------------------------- app/pending_actions.py
PendingAction(action_id, tool, payload, status) ==
    [action_id |-> action_id, tool |-> tool, payload |-> payload, status |-> status]

\* require_confirmation's return value (created_at is left out).
Summary(action) ==
    [status |-> action.status, action_id |-> action.action_id, tool |-> action.tool]

\* dict[key] = value
Put(d, key, value) ==
    [k \in DOMAIN d \cup {key} |-> IF k = key THEN value ELSE d[k]]

\* Altered pop: `self._pending.get(action_id)`, which leaves the entry.
NotPopped(d, key) == d

\* PendingActionStore.pop: what is left of _pending once the key is popped.
Popped(d, key) == [k \in DOMAIN d \ {key} |-> d[k]]

\* The objects left once the object `id` is unreachable and reclaimed.
Reclaimed(d, id) == [k \in DOMAIN d \ {id} |-> d[k]]

\* What can be wrong with the pending-actions file when the store is
\* constructed: nothing; the text is cut short (JSONDecodeError); an entry
\* lacks a key (KeyError); an entry's created_at is not a date (ValueError);
\* an entry is not an object (TypeError); the text is JSON, yet not an
\* object (no `items` attribute: AttributeError).
FileDamages ==
    {Null, "truncated", "entry_without_tool", "created_at_not_a_date",
     "entry_not_an_object", "not_an_object"}

\* _load, line 45: the exceptions the handler catches.
CaughtDamages ==
    {"truncated", "entry_without_tool", "created_at_not_a_date", "entry_not_an_object"}

\* Altered _load: the file is not read, the store starts empty.
load_nothing(file) == << >>

\* _load, lines 34-41 and 51-59: one object per entry of the file, built
\* field by field, under the entry's key.
load_entries(file) ==
    [k \in DOMAIN file |->
        PendingAction(file[k].action_id, file[k].tool, file[k].payload, file[k].status)]

\* PendingActionStore(storage_path): the exception __init__ ends with, if
\* any, and the _pending of the new store.
load(file, damage) ==
    IF damage = Null
    THEN [error |-> Null, entries |-> load_entries(file)]
    ELSE IF damage \in CaughtDamages
    THEN [error |-> "pending_actions_store_corrupt", entries |-> << >>]
    ELSE [error |-> "AttributeError", entries |-> << >>]

\* ------------------------------------------------------------- app/llm.py
\* The largest LLM_RETRY_COUNT of the settings.
MaxRetries == 2

\* app/config.py: the default of LLM_RETRY_BACKOFF_MS.
LLM_RETRY_BACKOFF_MS == 250

\* What httpx.post followed by raise_for_status comes to: a response with
\* its status code, or a transport failure (timeout, connection error), an
\* httpx.HTTPError that is no HTTPStatusError.
Status(code) == [kind |-> "status", code |-> code]
TransportError == [kind |-> "transport", code |-> 0]

HttpOutcomes == {Status(200), Status(429), Status(503), Status(400), TransportError}

\* raise_for_status raises HTTPStatusError.
IsStatusError(outcome) == outcome.kind = "status" /\ outcome.code >= 400

\* Altered _should_retry_http_error: no status is retried.
should_never_retry(status_code) == FALSE

\* Altered _should_retry_http_error: every status error is retried.
should_retry_any_status(status_code) == TRUE

\* Texts by their length only: an exception with the number of characters
\* of its message around and between its first and last non-blank character
\* (a newline counts as one character before and after replace), and the
\* name of its class.
Exception(class, before, inner, after) ==
    [class |-> class, before |-> before, inner |-> inner, after |-> after]

\* len(str(exc).replace("\n", " ").strip())
StrippedLength(exc) == exc.inner

\* _summarize_error, by the length of what it returns: the message cut to
\* 177 characters and "...", the message, or the name of the class.
summarize_error(exc) ==
    LET message == StrippedLength(exc) IN
    IF message > 180 THEN 177 + Len("...")
    ELSE IF message > 0 THEN message
    ELSE Len(exc.class)

\* generate_response, line 427: f"HTTP {status_code}: {_summarize_error(exc)}".
StatusErrorSummary(status_code, exc) ==
    Len("HTTP ") + Len(status_code) + Len(": ") + summarize_error(exc)

\* generate_response, lines 444 and 528: error_summary=_summarize_error(exc).
ErrorSummary(exc) == summarize_error(exc)

\* _should_retry_http_error
should_retry_http_error(status_code) == status_code = 429 \/ status_code >= 500

\* The request bodies of generate_response by what tells them apart: native
\* tool definitions, the forced tool_choice, the response format, and whether
\* the system prompt spells out the tool list.
LlmPayload(tools, tool_choice, response_format, tools_in_prompt) ==
    [tools |-> tools, tool_choice |-> tool_choice,
     response_format |-> response_format, tools_in_prompt |-> tools_in_prompt]

\* generate_response, lines 392-398: the payload of the retry loop.
JsonObjectPayload == LlmPayload(FALSE, Null, "json_object", TRUE)

\* _build_llm_payload
build_llm_payload(forced_tool, use_native_tools) ==
    LlmPayload(use_native_tools,
               IF use_native_tools /\ forced_tool # Null THEN forced_tool ELSE Null,
               "json_schema",
               ~use_native_tools)

\* `not value` of a setting: None (the variable is not set) or the empty string.
IsUnset(value) == value \in {Null, ""}

\* Altered _require_llm_settings: LLM_MODEL is not looked at.
require_llm_settings_but_model(settings) ==
    IF IsUnset(settings.llm_base_url) THEN "llm_not_configured"
    ELSE IF IsUnset(settings.llm_api_key) THEN "llm_not_configured"
    ELSE Null

\* _require_llm_settings: the error code raised, None when all is set.
require_llm_settings(settings) ==
    IF IsUnset(settings.llm_base_url) THEN "llm_not_configured"
    ELSE IF IsUnset(settings.llm_api_key) THEN "llm_not_configured"
    ELSE IF IsUnset(settings.llm_model) THEN "llm_not_configured"
    ELSE Null

\* max(0, settings.llm_retry_count)
RetryCount(settings) ==
    IF settings.llm_retry_count > 0 THEN settings.llm_retry_count ELSE 0

RECURSIVE Pow2(_)
Pow2(n) == IF n = 0 THEN 1 ELSE 2 * Pow2(n - 1)

\* A response body with status 200, by the shape the decoding depends on:
\* whether it is JSON at all, its "choices", the first choice's "message",
\* the message's "content" and its tool calls.
Body(json, choices, message, content, tool_calls) ==
    [json |-> json, choices |-> choices, message |-> message,
     content |-> content, tool_calls |-> tool_calls]

Bodies ==
    {Body(TRUE, "list", "dict", "object", "none"),
     Body(TRUE, "list", "dict", "null", "valid"),
     Body(TRUE, "list", "dict", "missing", "valid"),
     Body(TRUE, "list", "dict", "null", "none"),
     Body(TRUE, "list", "dict", "prose", "none"),
     Body(TRUE, "list", "dict", "null", "no_name"),
     Body(TRUE, "list", "dict", "null", "bad_arguments"),
     Body(FALSE, "missing", "null", "missing", "none"),
     Body(TRUE, "missing", "null", "missing", "none"),
     Body(TRUE, "empty", "null", "missing", "none"),
     Body(TRUE, "list", "null", "missing", "none")}

\* Python values: None, a string (its text: a sequence of pieces), an int,
\* a list (its items), a dict (its keys as fields).
PyNone == [type |-> "NoneType"]
PyStr(text) == [type |-> "str", text |-> text]
PyInt == [type |-> "int"]
PyList(items) == [type |-> "list", items |-> items]

\* Pieces of text: white space, and a word (told apart by its number).
Ws == [t |-> "ws"]
Word(n) == [t |-> "word", n |-> n]

\* str.strip
RECURSIVE strip(_)
strip(text) ==
    IF text = << >> THEN text
    ELSE IF Head(text) = Ws THEN strip(Tail(text))
    ELSE IF text[Len(text)] = Ws THEN strip(SubSeq(text, 1, Len(text) - 1))
    ELSE text

_MAX_HISTORY_MESSAGES == 12

\* An entry of the history that is a dict with the keys role and content.
Turn(role, content) == [type |-> "dict", role |-> role, content |-> content]

\* _normalize_history, lines 255-262: the entries the loop keeps.
IsKept(entry) ==
    /\ entry.type = "dict"
    /\ entry.role \in {"user", "assistant"}
    /\ entry.content.type = "str"
    /\ strip(entry.content.text) # << >>

\* seq[-n:]
Last(seq, n) == SubSeq(seq, IF Len(seq) > n THEN Len(seq) - n + 1 ELSE 1, Len(seq))

\* Line 263: the message made of a kept entry.
Normalized(entry) == [role |-> entry.role, content |-> PyStr(strip(entry.content.text))]

Each(seq) == [i \in 1..Len(seq) |-> Normalized(seq[i])]

\* Altered line 254: the invalid entries are dropped first, and the window
\* is cut from what is left.
normalize_history_then_cut(history) ==
    IF history.type # "list" THEN << >>
    ELSE Last(Each(SelectSeq(history.items, IsKept)), _MAX_HISTORY_MESSAGES)

\* _normalize_history
normalize_history(history) ==
    IF history.type # "list" THEN << >>
    ELSE Each(SelectSeq(Last(history.items, _MAX_HISTORY_MESSAGES), IsKept))

\* _build_messages, lines 274-301: the system message. Its content is the
\* system prompt, then the tool instructions unless the request carries
\* the native tool definitions, then the forced tool's sentence.
SystemMessage(forced_tool, use_native_tools) ==
    [role |-> "system",
     content |-> [system_prompt |-> TRUE,
                  tool_instructions |-> ~use_native_tools,
                  use_tool |-> IF use_native_tools THEN Null ELSE forced_tool]]

\* _build_messages
build_messages(user_message, forced_tool, history, use_native_tools) ==
    <<SystemMessage(forced_tool, use_native_tools)>>
        \o normalize_history(history)
        \o <<[role |-> "user", content |-> user_message]>>

\* A Python evaluation: the exception class it raised, or the value it gave.
Raised(exception) == [raised |-> exception, value |-> [response |-> Null]]
Returned(value) == [raised |-> Null, value |-> value]

TextReply == [response |-> "r1", action |-> NoAction]
ToolCallReply == [response |-> "", action |-> DictAction("email.send", "p1")]

\* A reply whose response quotes a fenced snippet in braces.
InlineFenceReply == [response |-> "Use [fence]{x}[fence] here", action |-> NoAction]

\* More pieces of text: a fence with and without its language tag, a brace
\* on its own, braces around something that is no JSON, brackets, a JSON
\* scalar, the word None, and a serialized JSON object. An object whose
\* strings quote a fenced snippet is written in five pieces: up to the
\* fence, the fence, the snippet, the fence, and from the fence on.
Fence == [t |-> "fence"]
FenceJson == [t |-> "fence_json"]
OpenBrace == [t |-> "{"]
CloseBrace == [t |-> "}"]
Braced == [t |-> "{x}"]
OpenBracket == [t |-> "["]
CloseBracket == [t |-> "]"]
Scalar == [t |-> "42"]
NoneWord == [t |-> "None"]
Object(value) == [t |-> "object", v |-> value]
ObjectHead(value) == [t |-> "object_head", v |-> value]
ObjectTail(value) == [t |-> "object_tail", v |-> value]

QuotesFence(value) == value = InlineFenceReply

\* json.dumps of a JSON object.
serialize(value) ==
    IF QuotesFence(value)
    THEN <<ObjectHead(value), Fence, Braced, Fence, ObjectTail(value)>>
    ELSE <<Object(value)>>

\* What a parse gives: nothing (it raised JSONDecodeError), or a value of
\* some type.
NotParsed == [ok |-> FALSE, type |-> Null, value |-> [response |-> Null]]
Parsed(type, value) == [ok |-> TRUE, type |-> type, value |-> value]

IsInk(piece) == piece # Ws

\* json.loads: white space around the value and inside an array is skipped;
\* the text must hold one value and nothing else.
json_loads(text) ==
    LET t == SelectSeq(text, IsInk) IN
    IF Len(t) = 1 /\ t[1].t = "object" THEN Parsed("dict", t[1].v)
    ELSE IF Len(t) = 5 /\ t[1].t = "object_head" /\ t = serialize(t[1].v)
    THEN Parsed("dict", t[1].v)
    ELSE IF t = <<Scalar>> THEN Parsed("int", [response |-> Null])
    ELSE IF t = <<OpenBracket, CloseBracket>> THEN Parsed("list", [response |-> Null])
    ELSE IF Len(t) = 3 /\ t[1] = OpenBracket /\ t[3] = CloseBracket
                       /\ t[2].t \in {"object", "42"}
    THEN Parsed("list", [response |-> Null])
    ELSE NotParsed

IsFence(piece) == piece.t \in {"fence", "fence_json"}
HasOpenBrace(piece) == piece.t \in {"object", "object_head", "{x}", "{"}
HasCloseBrace(piece) == piece.t \in {"object", "object_tail", "{x}", "}"}
AllWs(text, from, to) == \A n \in from..to : text[n] = Ws

\* The matches of the pattern of line 606 in the text: an opening fence at
\* i, white space, a brace at j, anything up to a brace at k, white space,
\* and a fence.
FenceMatches(text) ==
    {m \in (1..Len(text)) \X (1..Len(text)) \X (1..Len(text)) :
        /\ m[1] < m[2] /\ m[2] <= m[3]
        /\ IsFence(text[m[1]])
        /\ AllWs(text, m[1] + 1, m[2] - 1)
        /\ HasOpenBrace(text[m[2]])
        /\ HasCloseBrace(text[m[3]])
        /\ \E n \in (m[3] + 1)..Len(text) :
               AllWs(text, m[3] + 1, n - 1) /\ IsFence(text[n])}

\* re.search: the leftmost match, and its group as long as it can be.
fenced_match(text) ==
    LET found == FenceMatches(text)
        m == CHOOSE m \in found :
                \A o \in found : m[1] < o[1] \/ (m[1] = o[1] /\ m[3] >= o[3])
    IN
    IF found = {} THEN [found |-> FALSE, group |-> << >>]
    ELSE [found |-> TRUE, group |-> SubSeq(text, m[2], m[3])]

\* Lines 610-614: the text from its first "{" to its last "}".
braces_match(text) ==
    LET opens == {n \in 1..Len(text) : HasOpenBrace(text[n])}
        closes == {n \in 1..Len(text) : HasCloseBrace(text[n])}
        start == CHOOSE n \in opens : \A o \in opens : n <= o
        end == CHOOSE n \in closes : \A o \in closes : n >= o
    IN
    IF opens = {} \/ closes = {} THEN [found |-> FALSE, group |-> << >>]
    ELSE IF start > end THEN [found |-> FALSE, group |-> << >>]
    ELSE [found |-> TRUE, group |-> SubSeq(text, start, end)]

\* Altered lines 603-616: a parse that fails, or that gives no object, hands
\* over to the next one.
decoded_by_first_object(text) ==
    LET direct == json_loads(text)
        fenced == IF fenced_match(text).found
                  THEN json_loads(fenced_match(text).group) ELSE NotParsed
        braces == IF braces_match(text).found
                  THEN json_loads(braces_match(text).group) ELSE NotParsed
    IN
    IF direct.ok /\ direct.type = "dict" THEN direct
    ELSE IF fenced.ok /\ fenced.type = "dict" THEN fenced
    ELSE braces

\* Lines 603-614: the direct parse; when it raises, the parse of the fenced
\* group when the pattern matches, and of the text between the braces
\* when it does not.
decoded(text) ==
    IF json_loads(text).ok THEN json_loads(text)
    ELSE IF fenced_match(text).found THEN json_loads(fenced_match(text).group)
    ELSE IF braces_match(text).found THEN json_loads(braces_match(text).group)
    ELSE NotParsed

\* str(value)
str(value) ==
    IF value.type = "str" THEN value.text
    ELSE IF value.type = "NoneType" THEN <<NoneWord>>
    ELSE IF value.type = "int" THEN <<Scalar>>
    ELSE <<Word(0)>>

\* A part of a content list: a dict with a "text" key, a dict without.
TextPart(text) == [type |-> "dict", has_text |-> TRUE, text |-> text]
OtherPart == [type |-> "dict", has_text |-> FALSE, text |-> PyNone]

\* Line 596: part.get("text", "") if isinstance(part, dict) else str(part)
PartText(part) ==
    IF part.type = "dict"
    THEN IF part.has_text THEN part.text ELSE PyStr(<< >>)
    ELSE PyStr(str(part))

RECURSIVE Joined(_)
Joined(parts) ==
    IF parts = << >> THEN << >> ELSE PartText(Head(parts)).text \o Joined(Tail(parts))

\* _decode_llm_json
decode_llm_json(content) ==
    IF content.type = "list" /\ \E n \in 1..Len(content.items) :
                                   PartText(content.items[n]).type # "str"
    THEN Raised("TypeError")   \* "".join of something that is no string
    ELSE
    LET text == strip(IF content.type = "list" THEN Joined(content.items) ELSE str(content))
    IN
    IF decoded(text).ok /\ decoded(text).type = "dict"
    THEN Returned(decoded(text).value)
    ELSE Raised("JSONDecodeError")

\* The content of the message of a response body.
ContentOf(kind) ==
    CASE kind = "object" -> PyStr(<<Object(TextReply)>>)
      [] kind = "prose" -> PyStr(<<Word(0), Ws, Word(1)>>)
      [] OTHER -> PyNone

\* More Python values: a dict that holds a JSON object, the arguments
\* object of a tool call, a tool's name, a message, a tool call with and
\* without its "function" level.
PyDict(value) == [type |-> "dict", value |-> value]
Arguments(payload) == [payload |-> payload]
Name(tool) == [t |-> "name", tool |-> tool]
Message(content, tool_calls, function_calls) ==
    [type |-> "dict", content |-> content, tool_calls |-> tool_calls,
     function_calls |-> function_calls]
Function(name, has_arguments, arguments) ==
    [type |-> "dict", has_function |-> FALSE, function |-> PyNone,
     name |-> name, has_arguments |-> has_arguments, arguments |-> arguments]
ToolCall(function, name, has_arguments, arguments) ==
    [type |-> "dict", has_function |-> TRUE, function |-> function,
     name |-> name, has_arguments |-> has_arguments, arguments |-> arguments]

\* bool(value)
bool(value) ==
    CASE value.type = "NoneType" -> FALSE
      [] value.type = "str" -> value.text # << >>
      [] value.type = "list" -> value.items # << >>
      [] OTHER -> TRUE

\* Altered lines 583-584: None and "" are arguments like any other.
parse_tool_arguments_strictly(raw_arguments) ==
    IF raw_arguments.type = "dict" THEN Returned(raw_arguments.value)
    ELSE IF raw_arguments.type = "str"
              /\ json_loads(raw_arguments.text).ok
              /\ json_loads(raw_arguments.text).type = "dict"
    THEN Returned(json_loads(raw_arguments.text).value)
    ELSE Raised("JSONDecodeError")

\* _parse_tool_arguments
parse_tool_arguments(raw_arguments) ==
    IF raw_arguments.type = "dict" THEN Returned(raw_arguments.value)
    ELSE IF raw_arguments = PyNone \/ raw_arguments = PyStr(<< >>)
    THEN Returned(Arguments("{}"))
    ELSE IF raw_arguments.type = "str"
              /\ json_loads(raw_arguments.text).ok
              /\ json_loads(raw_arguments.text).type = "dict"
    THEN Returned(json_loads(raw_arguments.text).value)
    ELSE Raised("JSONDecodeError")

\* The name as the action carries it (it is not stripped; the names of
\* the model are one piece long).
ToolOf(tool_name) == tool_name.text[1].tool

\* _parse_llm_choice, lines 554-575: the first of the calls.
parse_call(call) ==
    IF call.type # "dict" THEN Raised("JSONDecodeError")
    ELSE
    LET function == IF call.has_function THEN call.function ELSE call IN
    IF function.type # "dict" THEN Raised("JSONDecodeError")
    ELSE
    LET tool_name == IF bool(function.name) THEN function.name ELSE call.name
        raw_arguments ==
            IF function.has_arguments THEN function.arguments
            ELSE IF call.has_arguments THEN call.arguments
            ELSE PyDict(Arguments("{}"))
        payload == parse_tool_arguments(raw_arguments)
    IN
    IF payload.raised # Null THEN payload
    ELSE IF tool_name.type # "str" \/ strip(tool_name.text) = << >>
    THEN Raised("JSONDecodeError")
    ELSE Returned([response |-> "",
                   action |-> DictAction(ToolOf(tool_name), payload.value.payload)])

\* _parse_llm_choice
parse_llm_choice(message) ==
    IF message.type # "dict" THEN Raised("AttributeError")   \* None.get
    ELSE IF bool(message.content) THEN decode_llm_json(message.content)
    ELSE
    LET tool_calls == IF bool(message.tool_calls) THEN message.tool_calls
                      ELSE IF bool(message.function_calls) THEN message.function_calls
                      ELSE PyList(<< >>)
    IN
    IF tool_calls.type = "list" /\ tool_calls.items # << >>
    THEN parse_call(tool_calls.items[1])
    ELSE Raised("JSONDecodeError")

\* The tool calls of the message of a response body.
ToolCallsOf(kind) ==
    CASE kind = "valid" ->
            PyList(<<ToolCall(Function(PyStr(<<Name("email.send")>>), TRUE,
                                   PyStr(<<Object(Arguments("p1"))>>)),
                          PyNone, FALSE, PyNone)>>)
      [] kind = "no_name" ->
            PyList(<<ToolCall(Function(PyNone, TRUE, PyStr(<<Object(Arguments("p1"))>>)),
                          PyNone, FALSE, PyNone)>>)
      [] kind = "bad_arguments" ->
            PyList(<<ToolCall(Function(PyStr(<<Name("email.send")>>), TRUE,
                                   PyList(<<PyInt>>)),
                          PyNone, FALSE, PyNone)>>)
      [] OTHER -> PyNone

\* The message of a response body.
MessageOf(body) ==
    IF body.message = "null" THEN PyNone
    ELSE Message(ContentOf(body.content), ToolCallsOf(body.tool_calls), PyNone)

\* generate_response, lines 519-521: the body of the try statement.
DecodeContent(body) ==
    IF ~body.json THEN Raised("JSONDecodeError")
    ELSE IF body.choices = "missing" THEN Raised("KeyError")
    ELSE IF body.choices = "empty" THEN Raised("IndexError")
    ELSE IF body.message = "null" THEN Raised("TypeError")
    ELSE IF body.content = "missing" THEN Raised("KeyError")
    ELSE decode_llm_json(ContentOf(body.content))

\* generate_response, line 530, in the first except clause (an exception
\* raised there is caught by no clause of the same try statement).
DecodeChoice(body) ==
    IF ~body.json THEN Raised("UnboundLocalError")
    ELSE IF body.choices = "missing" THEN Raised("KeyError")
    ELSE IF body.choices = "empty" THEN Raised("IndexError")
    ELSE parse_llm_choice(MessageOf(body))


\* ------------------------------------------------------------------ state
VARIABLES
    uuids,        \* how many uuid4 values PendingActionStore.create has drawn
    actions,      \* the live PendingAction objects, by identity (uuid4 order)
    pending,      \* PendingActionStore._pending: key -> PendingAction object
    disk,         \* the pending-actions file: key -> the object's fields as written
    tasks,        \* TasksStore._tasks: the titles of the tasks created
    handlerRuns,  \* per action, how often a handler was invoked for it
    pops,         \* per action, how often PendingActionStore.pop returned it
    popped,       \* per action popped, the status confirm or cancel gave it
    origin,       \* per action, the tool and payload of the request that created it
    req,          \* per worker, the request it serves and where it stands in it
    classified,   \* decide_tool called on its own: the message, the decisions returned
    llmCall,      \* generate_response called on its own: the call and where it stands
    fnCall,       \* a function of llm.py called on its own: its input, its result
    startup,      \* the starts of the process: how the last one found the file and ended
    sink,         \* whether the audit file can be written
    configured    \* configure_stores run on its own: the settings, the calls it made

vars ==
    <<uuids, actions, pending, disk, tasks, handlerRuns, pops, popped, origin, req,
      classified, llmCall, fnCall, startup, sink, configured>>

\* The stores of the application.
Stores == <<uuids, actions, pending, disk, tasks, handlerRuns, pops, popped, origin>>

\* The functions called on their own, outside of a request.
callVars == <<classified, llmCall, fnCall>>

\* What surrounds the requests: the starts of the process, the audit file,
\* the startup configuration run on its own.
hostVars == <<startup, sink, configured>>

\* A worker between requests. `calls` are the handler invocations and
\* `events` the audit events (audit_store.add) of the request being served.
Idle ==
    [kind |-> "idle", pc |-> "idle", stage |-> "plan",
     action_id |-> 0, confirmed |-> Null,
     tool |-> Null, payload |-> Null, message |-> {}, reply |-> NoAction,
     response |-> "",
     action |-> 0, data |-> << >>, calls |-> << >>, events |-> << >>,
     plan |-> NoPlan, result |-> NoResult, error |-> Null]

\* No call of decide_tool on its own.
NotClassified == [message |-> {}, decisions |-> << >>]

\* No call of generate_response on its own.
NotGenerating ==
    [pc |-> "idle",
     settings |-> [llm_base_url |-> Null, llm_api_key |-> Null, llm_model |-> Null,
                   llm_retry_count |-> 0],
     forced_tool |-> Null, attempt |-> 0, sent |-> << >>, slept |-> << >>,
     telemetry |-> << >>, body |-> [json |-> FALSE], reply |-> [response |-> Null],
     result |-> Null]

\* No call of a function of llm.py on its own.
NoCall == [fn |-> Null, returned |-> FALSE]

\* No run of configure_stores on its own.
NotConfiguring ==
    [run |-> Null,
     settings |-> [pending_actions_path |-> Null, notes_store_path |-> Null,
                   tasks_store_path |-> Null, memory_store_path |-> Null,
                   audit_store_path |-> Null],
     calls |-> << >>]

\* The first start of the process: no file yet, nothing loaded.
FirstStart ==
    [loads |-> 1, damage |-> Null, error |-> Null, file |-> << >>, loaded |-> {}]

InitStores ==
    /\ uuids = 0
    /\ actions = << >>
    /\ pending = << >>
    /\ disk = << >>
    /\ tasks = {}
    /\ handlerRuns = [id \in Ids |-> 0]
    /\ pops = [id \in Ids |-> 0]
    /\ popped = << >>
    /\ origin = << >>
    /\ req = [w \in Workers |-> Idle]
    /\ startup = FirstStart

Init ==
    /\ InitStores
    /\ fnCall = NoCall
    /\ classified = NotClassified
    /\ llmCall = NotGenerating
    /\ sink = "available"
    /\ configured = NotConfiguring

\* A handler either returns or raises (an upstream failure, an expired
\* credential, a payload it rejects).
HandlerOutcomes == {"ok", "raise"}

Call(handler, payload, action_id) ==
    [handler |-> handler, payload |-> payload, action_id |-> action_id]

\* app/tasks.py: create_task stores the task, list_tasks returns the store.
TasksAfter(handler, payload, outcome) ==
    IF handler = "create_task" /\ outcome = "ok" THEN tasks \cup {payload} ELSE tasks

HandlerResult(handler, payload) ==
    IF handler = "list_tasks"
    THEN [status |-> "ok", data |-> <<handler, tasks>>]
    ELSE ToolResult(handler, payload)

\* The model caps the actions ever created: a request that is going to
\* create one starts only while there is room for it.
CanCreate ==
    uuids
        + Cardinality({v \in Workers : req[v].pc = "create"}) < MaxActions

Done(r, result) == [r EXCEPT !.pc = "done", !.result = result]
Failed(r, code) == [r EXCEPT !.pc = "done", !.error = code]

\* The worker's request after record_event: AuditStore.add appends the
\* event and calls _persist, whose write_text raises OSError when the audit
\* file cannot be written; nothing on the way up catches it, and the
\* request ends with it instead of `then`.
Recorded(then) ==
    IF sink = "available"
    THEN then
    ELSE [then EXCEPT !.pc = "done", !.error = "OSError", !.result = NoResult]

\* The worker's request after tool_config["handler"](settings, payload), or
\* after a route's handler call: `then` is the request when the handler returns.
AfterHandler(r, handler, payload, action_id, outcome, then) ==
    IF handler = Null
    THEN Failed(r, "internal_server_error")   \* calling None: TypeError
    ELSE IF outcome = "raise"
    THEN Failed([r EXCEPT !.calls = Append(@, Call(handler, payload, action_id))],
                "handler_error")
    ELSE [then EXCEPT !.calls = Append(@, Call(handler, payload, action_id))]

\* ------------------------------------------------------------ the inputs
\* Messages of chat requests, each the set of classifier keywords it holds:
\* no keyword, one tool (high confidence), two tools of one domain.
ChatMessages ==
    {{}, {"enviar", "email"}, {"email", "enviar", "ler"}, {"tarefa", "listar"}}

\* Tools a model reply may name: every tool that requires confirmation,
\* tools that do not, one outside of the dispatch table, and none (the
\* "tool" key is missing).
ReplyTools ==
    CONFIRMATION_REQUIRED_TOOLS
        \cup {"email.search", "tasks.list", "spotify.pause", "files.delete", Null}

ReplyActions ==
    {NoAction, EmptyAction, NonDictAction}
        \cup {DictAction(t, p) : t \in ReplyTools, p \in Payloads}

\* What generate_response gives plan_chat: a decoded reply, or an HTTPException.
LlmOutcomes ==
    {[ok |-> TRUE, response |-> r, action |-> a] : r \in ResponseTexts, a \in ReplyActions}
        \cup {[ok |-> FALSE, code |-> "llm_request_failed"]}

\* ------------------------------------------------------------- the steps
\* POST /tools/...: a read route calls its handler and records the audit
\* event; a write route calls require_confirmation.
ToolRouteOf(w, tools) ==
    /\ req[w].pc = "idle"
    /\ \E tool \in tools, payload \in Payloads, outcome \in HandlerOutcomes :
        LET handler == RouteHandler(tool)
            r == [req[w] EXCEPT !.kind = "tool", !.tool = tool, !.payload = payload]
        IN
        IF handler = Null
        THEN /\ outcome = "ok"
             /\ CanCreate
             /\ req' = [req EXCEPT ![w] = [r EXCEPT !.pc = "create"]]
             /\ UNCHANGED tasks
        ELSE /\ req' = [req EXCEPT ![w] =
                    AfterHandler(r, handler, payload, 0, outcome,
                        Recorded(Done([r EXCEPT !.events =
                                           Append(@, AuditEvent(tool, "ok", payload, 0))],
                                      HandlerResult(handler, payload))))]
             /\ tasks' = TasksAfter(handler, payload, outcome)
    /\ UNCHANGED <<uuids, actions, pending, disk, handlerRuns, pops, popped, origin>>
    /\ UNCHANGED <<callVars, hostVars>>

ToolRoute(w) == ToolRouteOf(w, RouteTools)

\* POST /chat without a usable message: _require_message raises.
ChatMissingMessage(w) ==
    /\ req[w].pc = "idle"
    /\ req' = [req EXCEPT ![w] = Failed([@ EXCEPT !.kind = "chat"], "missing_message")]
    /\ UNCHANGED <<uuids, actions, pending, disk, tasks, handlerRuns, pops, popped, origin>>
    /\ UNCHANGED <<callVars, hostVars>>

\* POST /chat, handle_chat's call of plan_chat: classify, ask the model,
\* reconcile, and dispatch up to require_confirmation's store access. A
\* call of generate_response that returns has recorded its "ok" telemetry
\* event on the way (llm.py:542): with the audit file unwritable it ends
\* with the OSError instead, before plan_chat records an event of its own.
ChatPlan(w) ==
    /\ req[w].pc = "idle"
    /\ \E message \in ChatMessages, llm \in LlmOutcomes, outcome \in HandlerOutcomes :
        LET r0 == [req[w] EXCEPT !.kind = "chat", !.message = message] IN
        IF ~llm.ok
        THEN /\ outcome = "ok"
             /\ req' = [req EXCEPT ![w] = Failed(r0, llm.code)]
             /\ UNCHANGED tasks
        ELSE IF sink # "available"
        THEN /\ outcome = "ok"
             /\ req' = [req EXCEPT ![w] = Failed(r0, "OSError")]
             /\ UNCHANGED tasks
        ELSE
        LET step == plan_chat(message, llm)
            r == [r0 EXCEPT !.reply = llm.action, !.response = llm.response,
                            !.events = step.events]
        IN
        CASE step.next = "error" ->
                /\ outcome = "ok"
                /\ req' = [req EXCEPT ![w] = Failed(r, step.code)]
                /\ UNCHANGED tasks
          [] step.next = "plan" ->
                /\ outcome = "ok"
                /\ req' = [req EXCEPT ![w] =
                       [r EXCEPT !.pc = "execute_plan", !.plan = step.plan]]
                /\ UNCHANGED tasks
          [] step.next = "confirm" ->
                /\ outcome = "ok"
                /\ CanCreate
                /\ req' = [req EXCEPT ![w] =
                       [r EXCEPT !.pc = "create", !.tool = step.tool,
                                 !.payload = step.payload]]
                /\ UNCHANGED tasks
          [] step.next = "handler" ->
                /\ req' = [req EXCEPT ![w] =
                       AfterHandler(r, step.handler, step.payload, 0, outcome,
                           [r EXCEPT !.pc = "execute_plan",
                                     !.plan = ToolResultPlan(llm.response,
                                                  HandlerResult(step.handler, step.payload))])]
                /\ tasks' = TasksAfter(step.handler, step.payload, outcome)
    /\ UNCHANGED <<uuids, actions, pending, disk, handlerRuns, pops, popped, origin>>
    /\ UNCHANGED <<callVars, hostVars>>

\* PendingActionStore.create up to its _persist: a fresh uuid4, the new
\* object, and its entry in _pending.
Create(w) ==
    /\ req[w].pc = "create"
    /\ LET action_id == uuids + 1
           action == PendingAction(action_id, req[w].tool, req[w].payload,
                                   "pending_confirmation")
       IN
       /\ uuids' = action_id
       /\ actions' = Put(actions, action_id, action)
       /\ pending' = Put(pending, action_id, action_id)
       /\ origin' = Put(origin, action_id,
                        [tool |-> req[w].tool, payload |-> req[w].payload])
       /\ req' = [req EXCEPT ![w] = [@ EXCEPT !.pc = "snapshot", !.action = action_id]]
    /\ UNCHANGED <<disk, tasks, handlerRuns, pops, popped>>
    /\ UNCHANGED <<callVars, hostVars>>

\* _persist, the dict comprehension: the fields of every pending object.
Snapshot(w) ==
    /\ req[w].pc = "snapshot"
    /\ req' = [req EXCEPT ![w] =
           [@ EXCEPT !.pc = "write",
                     !.data = [k \in DOMAIN pending |-> actions[pending[k]]]]]
    /\ UNCHANGED <<uuids, actions, pending, disk, tasks, handlerRuns, pops, popped, origin>>
    /\ UNCHANGED <<callVars, hostVars>>

\* Altered confirm_action: without its call of _persist, the file is left
\* as it is when an action is confirmed.
WriteUnlessConfirmed(w) ==
    /\ req[w].pc = "write"
    /\ disk' = IF req[w].kind = "confirm" THEN disk ELSE req[w].data
    /\ LET r == req[w]
           action == actions[r.action]
       IN
       req' = [req EXCEPT ![w] =
           CASE r.kind = "tool" -> Done(r, Summary(action))
             [] r.kind = "chat" /\ r.stage = "plan" ->
                    [r EXCEPT !.pc = "execute_plan",
                              !.plan = PendingPlan(r.response, Summary(action))]
             [] r.kind = "chat" /\ r.stage = "execute" ->
                    Done(r, PendingPlan(r.response, Summary(action)))
             [] r.kind = "confirm" -> [r EXCEPT !.pc = "execute"]
             [] r.kind = "cancel" -> Done(r, Summary(action))]
    /\ UNCHANGED <<uuids, actions, pending, tasks, handlerRuns, pops, popped, origin>>
    /\ UNCHANGED <<callVars, hostVars>>

\* _persist, write_text, and the caller's code up to its next store or
\* handler access.
Write(w) ==
    /\ req[w].pc = "write"
    /\ disk' = req[w].data
    /\ LET r == req[w]
           action == actions[r.action]
       IN
       req' = [req EXCEPT ![w] =
           CASE r.kind = "tool" -> Done(r, Summary(action))
             [] r.kind = "chat" /\ r.stage = "plan" ->
                    [r EXCEPT !.pc = "execute_plan",
                              !.plan = PendingPlan(r.response, Summary(action))]
             [] r.kind = "chat" /\ r.stage = "execute" ->
                    Done(r, PendingPlan(r.response, Summary(action)))
             [] r.kind = "confirm" -> [r EXCEPT !.pc = "execute"]
             [] r.kind = "cancel" -> Done(r, Summary(action))]
    /\ UNCHANGED <<uuids, actions, pending, tasks, handlerRuns, pops, popped, origin>>
    /\ UNCHANGED <<callVars, hostVars>>

\* handle_chat's call of execute_chat_plan on plan_chat's result.
ChatExecute(w) ==
    /\ req[w].pc = "execute_plan"
    /\ \E outcome \in HandlerOutcomes :
        LET r == [req[w] EXCEPT !.stage = "execute"]
            step == execute_chat_plan(r.plan)
        IN
        CASE step.next = "return" ->
                /\ outcome = "ok"
                /\ req' = [req EXCEPT ![w] = Done(r, step.result)]
                /\ UNCHANGED tasks
          [] step.next = "error" ->
                /\ outcome = "ok"
                /\ req' = [req EXCEPT ![w] = Failed(r, step.code)]
                /\ UNCHANGED tasks
          [] step.next = "confirm" ->
                /\ outcome = "ok"
                /\ CanCreate
                /\ req' = [req EXCEPT ![w] =
                       [r EXCEPT !.pc = "create", !.tool = step.tool,
                                 !.payload = step.payload]]
                /\ UNCHANGED tasks
          [] step.next = "handler" ->
                /\ req' = [req EXCEPT ![w] =
                       AfterHandler(r, step.handler, step.payload, 0, outcome,
                           Done(r, ToolResultPlan(r.response,
                                       HandlerResult(step.handler, step.payload))))]
                /\ tasks' = TasksAfter(step.handler, step.payload, outcome)
    /\ UNCHANGED <<uuids, actions, pending, disk, handlerRuns, pops, popped, origin>>
    /\ UNCHANGED <<callVars, hostVars>>

\* The action_id of a confirm or cancel request: missing (0), one that
\* create has handed out (a uuid4 cannot be guessed before), or a foreign one.
RequestIds == (0..uuids) \cup {UnknownId}

\* POST /confirm and POST /cancel up to _persist: the route's checks, then
\* confirm_action / cancel_action: the confirmed check, the pop, the status.
PopRoute(w, kind, status, values) ==
    /\ req[w].pc = "idle"
    /\ \E action_id \in RequestIds, value \in values :
        LET confirmed == IsLiteralTrue(value)
            r == [req[w] EXCEPT !.kind = kind, !.action_id = action_id,
                                !.confirmed = value]
        IN
        IF action_id = 0
        THEN /\ req' = [req EXCEPT ![w] = Failed(r, "missing_action_id")]
             /\ UNCHANGED <<actions, pending, pops, popped>>
        ELSE IF ~confirmed
        THEN /\ req' = [req EXCEPT ![w] = Failed(r, "confirmation_required")]
             /\ UNCHANGED <<actions, pending, pops, popped>>
        ELSE IF action_id \notin DOMAIN pending
        THEN /\ req' = [req EXCEPT ![w] = Failed(r, "pending_action_not_found")]
             /\ UNCHANGED <<actions, pending, pops, popped>>
        ELSE /\ pending' = Popped(pending, action_id)
             /\ pops' = [pops EXCEPT ![pending[action_id]] = @ + 1]
             /\ popped' = Put(popped, pending[action_id], status)
             /\ actions' = [actions EXCEPT ![pending[action_id]].status = status]
             /\ req' = [req EXCEPT ![w] =
                    [r EXCEPT !.pc = "snapshot", !.action = pending[action_id]]]
    /\ UNCHANGED <<uuids, disk, tasks, handlerRuns, origin>>
    /\ UNCHANGED <<callVars, hostVars>>

ConfirmRoute(w) == PopRoute(w, "confirm", "confirmed", ConfirmedValues)

CancelRoute(w) == PopRoute(w, "cancel", "cancelled", ConfirmedValues)

\* confirm_pending_action, line 233: execute_action on the confirmed action.
ConfirmExecute(w) ==
    /\ req[w].pc = "execute"
    /\ \E outcome \in HandlerOutcomes :
        LET r == req[w]
            action == actions[r.action]
            handler == execute_action(action.tool)
        IN
        IF handler = Null
        THEN /\ outcome = "ok"
             /\ req' = [req EXCEPT ![w] = Failed(r, "action_not_implemented")]
             /\ UNCHANGED <<tasks, handlerRuns>>
        ELSE /\ req' = [req EXCEPT ![w] =
                    AfterHandler(r, handler, action.payload, action.action_id, outcome,
                        [r EXCEPT !.pc = "record",
                                  !.result = HandlerResult(handler, action.payload)])]
             /\ tasks' = TasksAfter(handler, action.payload, outcome)
             /\ handlerRuns' = [handlerRuns EXCEPT ![r.action] = @ + 1]
    /\ UNCHANGED <<uuids, actions, pending, disk, pops, popped, origin>>
    /\ UNCHANGED <<callVars, hostVars>>

\* confirm_pending_action, lines 234-235: the audit event, then the result.
ConfirmRecord(w) ==
    /\ req[w].pc = "record"
    /\ LET r == req[w]
           action == actions[r.action]
       IN
       req' = [req EXCEPT ![w] =
           Recorded([r EXCEPT !.pc = "done",
                              !.events = Append(@, AuditEvent(action.tool, "confirmed",
                                                              action.payload,
                                                              action.action_id))])]
    /\ UNCHANGED <<uuids, actions, pending, disk, tasks, handlerRuns, pops, popped, origin>>
    /\ UNCHANGED <<callVars, hostVars>>

\* The response (or the error) is sent and the worker is free again. The
\* PendingAction object a confirm or cancel popped dies with the request:
\* nothing refers to it any longer.
Return(w) ==
    /\ req[w].pc = "done"
    /\ LET id == req[w].action
           dead == /\ id \in DOMAIN actions
                   /\ \A k \in DOMAIN pending : pending[k] # id
                   /\ \A v \in Workers \ {w} : req[v].action # id
       IN
       /\ actions' = IF dead THEN Reclaimed(actions, id) ELSE actions
       /\ origin' = IF dead THEN Reclaimed(origin, id) ELSE origin
    /\ req' = [req EXCEPT ![w] = Idle]
    /\ UNCHANGED <<uuids, pending, disk, tasks, handlerRuns, pops, popped>>
    /\ UNCHANGED <<callVars, hostVars>>

Step(w) ==
    \/ ToolRoute(w)
    \/ ChatMissingMessage(w)
    \/ ChatPlan(w)
    \/ Create(w)
    \/ Snapshot(w)
    \/ Write(w)
    \/ ChatExecute(w)
    \/ ConfirmRoute(w)
    \/ CancelRoute(w)
    \/ ConfirmExecute(w)
    \/ ConfirmRecord(w)
    \/ Return(w)

\* Requests served one at a time.
Next == Step("w1")

Spec == Init /\ [][Next]_vars

\* Create, confirm and cancel requests served by all workers at once: the
\* write routes of two tools, one that execute_action knows and one that it
\* does not, and confirm and cancel requests with a boolean "confirmed".
ConcurrentTools == {"email.send", "tasks.create"}

ConcurrentCreate(w) == ToolRouteOf(w, ConcurrentTools)

ConcurrentConfirm(w) == PopRoute(w, "confirm", "confirmed", {"True", "False"})

ConcurrentCancel(w) == PopRoute(w, "cancel", "cancelled", {"True", "False"})

ConcurrentStep(w) ==
    \/ ConcurrentCreate(w)
    \/ Create(w)
    \/ Snapshot(w)
    \/ Write(w)
    \/ ConcurrentConfirm(w)
    \/ ConcurrentCancel(w)
    \/ ConfirmExecute(w)
    \/ ConfirmRecord(w)
    \/ Return(w)

NextConcurrent == \E w \in Workers : ConcurrentStep(w)

SpecConcurrent == Init /\ [][NextConcurrent]_vars

\* ------------------------------------------------- the process restarts
\* Starts of the process.
MaxStarts == 3

\* A worker of a process whose startup failed: it serves nothing.
Down == [Idle EXCEPT !.pc = "down"]

\* The objects the pending set refers to, under their keys.
PendingSet == [k \in DOMAIN pending |-> actions[pending[k]]]

\* The process stops between two requests and starts again: main.py's
\* configure_stores builds a new PendingActionStore from the file (several
\* times over, each time with the same result). Meanwhile the file may
\* have been damaged; a damaged file stays as it is until someone repairs
\* it. When __init__ raises, the startup fails and nothing is served.
Restart ==
    /\ startup.loads < MaxStarts
    /\ \A w \in Workers : req[w].pc \in {"idle", "down"}
    /\ \E damage \in FileDamages :
        LET store == load(disk, damage) IN
        /\ startup.damage # Null => damage = startup.damage
        /\ startup' = [loads |-> startup.loads + 1, damage |-> damage,
                       error |-> store.error, file |-> disk,
                       loaded |-> DOMAIN store.entries]
        /\ actions' = store.entries
        /\ pending' = [k \in DOMAIN store.entries |-> k]
        /\ origin' = [k \in DOMAIN store.entries |-> origin[k]]
        /\ req' = [w \in Workers |-> IF store.error = Null THEN Idle ELSE Down]
    /\ UNCHANGED <<uuids, disk, tasks, handlerRuns, pops, popped>>
    /\ UNCHANGED <<callVars, sink, configured>>

NextRestart ==
    \/ ConcurrentStep("w1")
    \/ Restart

\* Create, confirm and cancel requests served one at a time by a process
\* that restarts.
SpecRestart == Init /\ [][NextRestart]_vars

\* Kills of the process.
MaxCrashes == 1

\* The damages a kill can do to the file: none, or a write cut short.
CrashDamages == {Null, "truncated"}

\* The process is killed at any point, between two requests or in the
\* middle of one, and starts again: the request and everything in memory
\* are lost, the file is what the last write_text left (or what a write cut
\* short left, which stays as it is), and the new process loads it as any
\* start does.
Crash ==
    /\ startup.loads <= MaxCrashes
    /\ \E damage \in CrashDamages :
        LET store == load(disk, damage) IN
        /\ startup.damage # Null => damage = startup.damage
        /\ startup' = [loads |-> startup.loads + 1, damage |-> damage,
                       error |-> store.error, file |-> disk,
                       loaded |-> DOMAIN store.entries]
        /\ actions' = store.entries
        /\ pending' = [k \in DOMAIN store.entries |-> k]
        /\ origin' = [k \in DOMAIN store.entries |-> origin[k]]
        /\ req' = [w \in Workers |-> IF store.error = Null THEN Idle ELSE Down]
    /\ UNCHANGED <<uuids, disk, tasks, handlerRuns, pops, popped>>
    /\ UNCHANGED <<callVars, sink, configured>>

NextCrash ==
    \/ ConcurrentStep("w1")
    \/ Crash

\* Create, confirm and cancel requests served one at a time by a process
\* that may be killed at any point and restarts.
SpecCrash == Init /\ [][NextCrash]_vars

\* ------------------------------------------------ decide_tool on its own
\* Words of a message.
MaxWords == 3

\* Calls of decide_tool on one message.
MaxCalls == 2

\* The words messages are made of: keywords of every keyword tuple of the
\* classifier (those shared by two tuples and those that hold another keyword
\* among them), words that are not lower case, a word that holds a keyword
\* without being one, and a word that holds none.
Vocabulary ==
    {"email", "e-mail", "mensagem",
     "buscar", "encontr",
     "rascunho", "draft",
     "enviar", "mande",
     "ler", "mostrar", "ver",
     "agenda", "calendário",
     "listar", "próxim",
     "criar", "agendar", "marcar",
     "alterar", "remarcar",
     "nota", "notas", "anotação",
     "tarefa", "tarefas", "to-do",
     "spotify", "música",
     "tocar", "play",
     "pausar", "parar",
     "pular", "próxima",
     "EMAIL", "Enviar", "conversar", "hoje"}

RECURSIVE MessagesOf(_)
MessagesOf(n) ==
    IF n = 0
    THEN {{}}
    ELSE LET shorter == MessagesOf(n - 1) IN
         shorter \cup {m \cup {word} : m \in shorter, word \in Vocabulary}

ClassifyMessages == MessagesOf(MaxWords)

InitClassify ==
    /\ InitStores
    /\ fnCall = NoCall
    /\ classified \in {[message |-> m, decisions |-> << >>] : m \in ClassifyMessages}
    /\ llmCall = NotGenerating
    /\ sink = "available"
    /\ configured = NotConfiguring

\* decide_tool(message), called once more on the same message.
Classify ==
    /\ Len(classified.decisions) < MaxCalls
    /\ classified' =
           [classified EXCEPT !.decisions = Append(@, decide_tool(classified.message))]
    /\ UNCHANGED <<Stores, req, llmCall, fnCall, hostVars>>

NextClassify == Classify

SpecClassify == InitClassify /\ [][NextClassify]_vars


\* ------------------------------------------ generate_response on its own
\* The settings of a call: each of the three required values set, empty or unset,
\* and LLM_RETRY_COUNT (a negative one counts as 0).
LlmSettings ==
    [llm_base_url : {Null, "", "url"}, llm_api_key : {Null, "", "key"},
     llm_model : {Null, "", "model"}, llm_retry_count : (-1)..MaxRetries]

InitLlm ==
    /\ InitStores
    /\ fnCall = NoCall
    /\ classified = NotClassified
    /\ llmCall \in {[NotGenerating EXCEPT !.settings = settings, !.forced_tool = tool] :
                       settings \in LlmSettings, tool \in {Null, "email.send"}}
    /\ sink = "available"
    /\ configured = NotConfiguring

Request(payload, outcome) == [payload |-> payload, outcome |-> outcome]

\* The call once `code` is raised, unless an exception is on its way up.
LlmRaise(call, code) ==
    IF call.pc = "done" THEN call ELSE [call EXCEPT !.pc = "done", !.result = code]

\* The call after record_llm_event: AuditStore.add appends the event and
\* calls _persist, whose write_text raises OSError when the audit file
\* cannot be written; generate_response does not catch it.
Telemetry(call, status) ==
    IF call.pc = "done" THEN call
    ELSE IF sink = "available" THEN [call EXCEPT !.telemetry = Append(@, status)]
    ELSE [call EXCEPT !.telemetry = Append(@, status), !.pc = "done", !.result = "OSError"]

\* generate_response, line 391: _require_llm_settings.
RequireSettings ==
    /\ llmCall.pc = "idle"
    /\ llmCall' =
           IF require_llm_settings(llmCall.settings) # Null
           THEN LlmRaise(llmCall, require_llm_settings(llmCall.settings))
           ELSE [llmCall EXCEPT !.pc = "retry"]
    /\ UNCHANGED <<Stores, req, classified, fnCall, hostVars>>

\* generate_response, lines 406-454: one turn of the retry loop, and lines
\* 456-463 when the loop is left (response is never None there).
RetryRequest ==
    /\ llmCall.pc = "retry"
    /\ \E outcome \in HttpOutcomes :
        LET retry_count == RetryCount(llmCall.settings)
            call == [llmCall EXCEPT !.sent = Append(@, Request(JsonObjectPayload, outcome))]
        IN
        llmCall' =
            IF IsStatusError(outcome)
            THEN IF call.attempt < retry_count /\ should_retry_http_error(outcome.code)
                 THEN [call EXCEPT !.attempt = @ + 1,
                                   !.slept = Append(@, LLM_RETRY_BACKOFF_MS * Pow2(call.attempt))]
                 ELSE LlmRaise(Telemetry(call, "error"), "llm_request_failed")
            ELSE IF outcome = TransportError
            THEN LlmRaise(Telemetry(call, "error"), "llm_request_failed")
            ELSE [call EXCEPT !.pc = "primary"]
    /\ UNCHANGED <<Stores, req, classified, fnCall, hostVars>>

\* generate_response, lines 465-481 and 507-516: the request with the native
\* tool definitions.
PrimaryRequest ==
    /\ llmCall.pc = "primary"
    /\ \E outcome \in HttpOutcomes :
        LET call == [llmCall EXCEPT !.sent =
                        Append(@, Request(build_llm_payload(llmCall.forced_tool, TRUE),
                                          outcome))]
        IN
        llmCall' =
            IF IsStatusError(outcome) THEN [call EXCEPT !.pc = "fallback"]
            ELSE IF outcome = TransportError THEN LlmRaise(call, "llm_request_failed")
            ELSE [call EXCEPT !.pc = "decode"]
    /\ UNCHANGED <<Stores, req, classified, fnCall, hostVars>>

\* generate_response, lines 482-506: the request without native tools, sent
\* when the primary one ended in an HTTP status error.
FallbackRequest ==
    /\ llmCall.pc = "fallback"
    /\ \E outcome \in HttpOutcomes :
        LET call == [llmCall EXCEPT !.sent =
                        Append(@, Request(build_llm_payload(llmCall.forced_tool, FALSE),
                                          outcome))]
        IN
        llmCall' =
            IF IsStatusError(outcome) \/ outcome = TransportError
            THEN LlmRaise(call, "llm_request_failed")
            ELSE [call EXCEPT !.pc = "decode"]
    /\ UNCHANGED <<Stores, req, classified, fnCall, hostVars>>

\* generate_response, lines 518-544: the decoding of the last response.
Decode ==
    /\ llmCall.pc = "decode"
    /\ \E body \in Bodies :
        LET call == [llmCall EXCEPT !.body = body]
            content == DecodeContent(body)
            choice == DecodeChoice(body)
            done(c, reply) ==
                IF Telemetry(c, "ok").pc = "done"
                THEN Telemetry(c, "ok")
                ELSE [Telemetry(c, "ok") EXCEPT !.pc = "done", !.result = "return",
                                                !.reply = reply]
        IN
        llmCall' =
            IF content.raised = Null
            THEN done(call, content.value)
            ELSE IF content.raised \in {"KeyError", "IndexError", "JSONDecodeError"}
            THEN IF choice.raised = Null
                 THEN done(Telemetry(call, "error"), choice.value)
                 ELSE LlmRaise(Telemetry(call, "error"), choice.raised)
            ELSE IF content.raised = "TypeError"
            THEN LlmRaise(call, "llm_bad_response")
            ELSE LlmRaise(call, content.raised)
    /\ UNCHANGED <<Stores, req, classified, fnCall, hostVars>>

NextLlm ==
    \/ RequireSettings
    \/ RetryRequest
    \/ PrimaryRequest
    \/ FallbackRequest
    \/ Decode

SpecLlm == InitLlm /\ [][NextLlm]_vars

\* -------------------------------------------- _build_messages on its own
\* Entries next to the run of valid turns at either end of a history.
MaxEdge == 1

\* Entries of a caller-supplied history other than a plain valid turn: a
\* valid turn with padded content, a turn of another role or without one,
\* turns whose content is blank, empty or no string, and a bare string.
EdgeEntries ==
    {Turn("user", PyStr(<<Ws, Word(0), Ws>>)),
     Turn("system", PyStr(<<Word(0)>>)),
     Turn(Null, PyStr(<<Word(0)>>)),
     Turn("assistant", PyStr(<<Ws, Ws>>)),
     Turn("user", PyStr(<< >>)),
     Turn("user", PyNone),
     PyStr(<<Word(0)>>)}

RECURSIVE EdgesOf(_)
EdgesOf(n) ==
    IF n = 0 THEN {<< >>}
    ELSE EdgesOf(n - 1) \cup {Append(e, x) : e \in EdgesOf(n - 1), x \in EdgeEntries}

\* n valid turns, user and assistant in turn, each with its own content.
ValidRun(n) ==
    [i \in 1..n |-> Turn(IF i % 2 = 1 THEN "user" ELSE "assistant", PyStr(<<Word(i)>>))]

\* Histories: no list at all, and lists of up to one more valid turn than
\* the window holds, with other entries before and after them.
Histories ==
    {PyNone}
        \cup {PyList(before \o ValidRun(n) \o after) :
                 before \in EdgesOf(MaxEdge), after \in EdgesOf(MaxEdge),
                 n \in 0..(_MAX_HISTORY_MESSAGES + 1)}

MessageInputs ==
    [user_message : {PyStr(<<Ws, Word(99)>>)},
     forced_tool : {Null, "email.send"},
     history : Histories,
     use_native_tools : BOOLEAN]

InitMessages ==
    /\ InitStores
    /\ classified = NotClassified
    /\ llmCall = NotGenerating
    /\ sink = "available"
    /\ configured = NotConfiguring
    /\ fnCall \in {[fn |-> "build_messages", input |-> i, returned |-> FALSE,
                      output |-> << >>] : i \in MessageInputs}

BuildMessages ==
    /\ fnCall.fn = "build_messages"
    /\ ~fnCall.returned
    /\ fnCall' = [fnCall EXCEPT
           !.returned = TRUE,
           !.output = build_messages(fnCall.input.user_message, fnCall.input.forced_tool,
                                     fnCall.input.history, fnCall.input.use_native_tools)]
    /\ UNCHANGED <<Stores, req, classified, llmCall, hostVars>>

NextMessages == BuildMessages

SpecMessages == InitMessages /\ [][NextMessages]_vars

\* ----------------------- _decode_llm_json and _parse_llm_choice on their own
\* Pieces of a text.
MaxPieces == 3

Pieces ==
    {Ws, Word(0), Fence, FenceJson, OpenBrace, CloseBrace, Braced, OpenBracket,
     CloseBracket, Scalar, Object(TextReply)}

RECURSIVE TextsOf(_)
TextsOf(n) ==
    IF n = 0 THEN {<< >>}
    ELSE TextsOf(n - 1) \cup {Append(text, piece) : text \in TextsOf(n - 1), piece \in Pieces}

\* Replies in the canonical form: a response and no action, a response and
\* an action, a response that quotes a fenced snippet.
CanonicalReplies ==
    {TextReply, [response |-> "r1", action |-> DictAction("email.send", "p1")],
     InlineFenceReply}

\* The ways a reply reaches the decoder: its serialization, the same in a
\* markdown fence, after some prose, and as a list of content parts.
Plain(reply) == PyStr(serialize(reply))
Fenced(reply, fence) == PyStr(<<fence, Ws>> \o serialize(reply) \o <<Ws, Fence>>)
AfterProse(reply) == PyStr(<<Word(0), Word(1), Ws>> \o serialize(reply))
InParts(reply) ==
    PyList(<<TextPart(PyStr(<<Head(serialize(reply))>>)), OtherPart,
             TextPart(PyStr(Tail(serialize(reply))))>>)

Contents ==
    {PyStr(text) : text \in TextsOf(MaxPieces)}
        \cup {Plain(reply) : reply \in CanonicalReplies}
        \cup {Fenced(reply, fence) : reply \in CanonicalReplies, fence \in {Fence, FenceJson}}
        \cup {AfterProse(reply) : reply \in CanonicalReplies}
        \cup {InParts(reply) : reply \in CanonicalReplies}
        \cup {PyNone, PyInt, PyList(<< >>), PyList(<<PyStr(<<Object(TextReply)>>)>>),
              PyList(<<TextPart(PyNone)>>)}

\* The names and the arguments a tool call may carry.
Names == {PyStr(<<Name("email.send")>>), PyStr(<<Ws>>), PyStr(<< >>), PyNone, PyInt}

ArgumentValues ==
    {PyDict(Arguments("p1")), PyStr(<<Object(Arguments("p1"))>>),
     PyStr(<<Ws, Object(Arguments("p1"))>>), PyStr(<< >>), PyNone,
     PyStr(<<OpenBracket, CloseBracket>>), PyStr(<<Braced>>), PyStr(<<Scalar>>),
     PyList(<< >>), PyInt}

\* Tool calls: with a "function" level, without one, with the name or the
\* arguments beside the "function" level, with a "function" that is no
\* object, and a call that is no object.
Calls ==
    {ToolCall(Function(name, has, arguments), PyNone, FALSE, PyNone) :
        name \in Names, has \in BOOLEAN, arguments \in ArgumentValues}
        \cup {Function(name, has, arguments) :
                 name \in Names, has \in BOOLEAN, arguments \in ArgumentValues}
        \cup {ToolCall(Function(PyNone, TRUE, PyDict(Arguments("p1"))), name, FALSE, PyNone) :
                 name \in Names}
        \cup {ToolCall(Function(PyStr(<<Name("email.send")>>), FALSE, PyNone),
                        PyNone, TRUE, arguments) : arguments \in ArgumentValues}
        \cup {ToolCall(PyStr(<<Word(0)>>), PyStr(<<Name("email.send")>>), TRUE,
                        PyDict(Arguments("p1"))),
              PyStr(<<Word(0)>>)}

OtherCall == Function(PyStr(<<Name("tasks.create")>>), TRUE, PyDict(Arguments("p2")))

CallLists ==
    {PyNone, PyList(<< >>), PyDict(Arguments("p1"))}
        \cup {PyList(<<call>>) : call \in Calls}
        \cup {PyList(<<call, OtherCall>>) : call \in Calls}

Messages ==
    {PyNone}
        \cup {Message(content, tool_calls, function_calls) :
                 content \in {PyNone, PyStr(<< >>), PyList(<< >>), PyStr(<<Ws>>),
                               PyStr(<<Word(0)>>), Plain(TextReply)},
                 tool_calls \in CallLists,
                 function_calls \in {PyNone, PyList(<<OtherCall>>)}}

InitDecode ==
    /\ InitStores
    /\ classified = NotClassified
    /\ llmCall = NotGenerating
    /\ sink = "available"
    /\ configured = NotConfiguring
    /\ fnCall \in {[fn |-> "decode_llm_json", input |-> content, returned |-> FALSE,
                      output |-> Raised(Null)] : content \in Contents}
                  \cup {[fn |-> "parse_llm_choice", input |-> message, returned |-> FALSE,
                          output |-> Raised(Null)] : message \in Messages}

DecodeLlmJson ==
    /\ fnCall.fn = "decode_llm_json"
    /\ ~fnCall.returned
    /\ fnCall' = [fnCall EXCEPT !.returned = TRUE,
                                 !.output = decode_llm_json(fnCall.input)]
    /\ UNCHANGED <<Stores, req, classified, llmCall, hostVars>>

ParseLlmChoice ==
    /\ fnCall.fn = "parse_llm_choice"
    /\ ~fnCall.returned
    /\ fnCall' = [fnCall EXCEPT !.returned = TRUE,
                                 !.output = parse_llm_choice(fnCall.input)]
    /\ UNCHANGED <<Stores, req, classified, llmCall, hostVars>>

NextDecode ==
    \/ DecodeLlmJson
    \/ ParseLlmChoice

SpecDecode == InitDecode /\ [][NextDecode]_vars

\* ------------------------- the error summaries of generate_response
\* Characters of an exception's message.
MaxMessage == 190

\* Blank characters around a message.
MaxBlank == 1

\* The exceptions generate_response summarizes: httpx's HTTPStatusError
\* (the message names the status and the whole URL of the request), its
\* transport errors, and the errors of response.json() and the decoder.
SummaryInputs ==
    {[site |-> "status", status_code |-> code, exc |-> Exception("HTTPStatusError", b, n, a)] :
         code \in {"404", "503"}, b \in 0..MaxBlank, n \in 1..MaxMessage, a \in 0..MaxBlank}
    \cup {[site |-> "transport", status_code |-> Null, exc |-> Exception(class, b, n, a)] :
         class \in {"ConnectError", "ReadTimeout"},
         b \in 0..MaxBlank, n \in 0..MaxMessage, a \in 0..MaxBlank}
    \cup {[site |-> "decode", status_code |-> Null, exc |-> Exception(class, b, n, a)] :
         class \in {"JSONDecodeError", "KeyError", "IndexError"},
         b \in 0..MaxBlank, n \in 0..MaxMessage, a \in 0..MaxBlank}

InitSummary ==
    /\ InitStores
    /\ classified = NotClassified
    /\ llmCall = NotGenerating
    /\ sink = "available"
    /\ configured = NotConfiguring
    /\ fnCall \in {[fn |-> "record_llm_event", input |-> input, returned |-> FALSE,
                      output |-> 0] : input \in SummaryInputs}

\* generate_response, lines 416-428: the record of an HTTP status error.
RecordStatusError ==
    /\ fnCall.fn = "record_llm_event"
    /\ ~fnCall.returned
    /\ fnCall.input.site = "status"
    /\ fnCall' = [fnCall EXCEPT !.returned = TRUE,
                                 !.output = StatusErrorSummary(fnCall.input.status_code,
                                                               fnCall.input.exc)]
    /\ UNCHANGED <<Stores, req, classified, llmCall, hostVars>>

\* generate_response, lines 438-445: the record of a transport failure.
RecordTransportError ==
    /\ fnCall.fn = "record_llm_event"
    /\ ~fnCall.returned
    /\ fnCall.input.site = "transport"
    /\ fnCall' = [fnCall EXCEPT !.returned = TRUE,
                                 !.output = ErrorSummary(fnCall.input.exc)]
    /\ UNCHANGED <<Stores, req, classified, llmCall, hostVars>>

\* generate_response, lines 522-529: the record of a decode failure.
RecordDecodeError ==
    /\ fnCall.fn = "record_llm_event"
    /\ ~fnCall.returned
    /\ fnCall.input.site = "decode"
    /\ fnCall' = [fnCall EXCEPT !.returned = TRUE,
                                 !.output = ErrorSummary(fnCall.input.exc)]
    /\ UNCHANGED <<Stores, req, classified, llmCall, hostVars>>

NextSummary ==
    \/ RecordStatusError
    \/ RecordTransportError
    \/ RecordDecodeError

SpecSummary == InitSummary /\ [][NextSummary]_vars

\* ------------------------------------------- configure_stores on its own
\* The settings of a run: each store path unset, empty or set.
StoreSettings ==
    [pending_actions_path : {Null, "", "pending.json"},
     notes_store_path : {Null, "", "notes.json"},
     tasks_store_path : {Null, "", "tasks.json"},
     memory_store_path : {Null, "", "memory.json"},
     audit_store_path : {Null, "", "audit.json"}]

InitConfigure ==
    /\ InitStores
    /\ fnCall = NoCall
    /\ classified = NotClassified
    /\ llmCall = NotGenerating
    /\ sink = "available"
    /\ configured \in {[NotConfiguring EXCEPT !.settings = settings] :
                          settings \in StoreSettings}

\* A call of main.configure_stores, as the repository's test makes it.
ConfigureStores ==
    /\ configured.run = Null
    /\ configured' = [configured EXCEPT !.run = "call",
                                         !.calls = configure_stores(configured.settings)]
    /\ UNCHANGED <<Stores, req, callVars, startup, sink>>

\* The startup event of the application: both functions registered with
\* @app.on_event("startup") run, in the order of their registration.
StartupEvent ==
    /\ configured.run = Null
    /\ configured' = [configured EXCEPT !.run = "startup",
                                         !.calls = configure_stores_first(configured.settings)
                                                       \o configure_stores(configured.settings)]
    /\ UNCHANGED <<Stores, req, callVars, startup, sink>>

NextConfigure ==
    \/ ConfigureStores
    \/ StartupEvent

SpecConfigure == InitConfigure /\ [][NextConfigure]_vars

\* ------------------------------------------ the audit file is unwritable
\* The audit file can be written, or it cannot (a full disk, a directory
\* that lost its permissions) for as long as the process runs.
Sinks == {"available", "unavailable"}

InitOutage ==
    /\ InitStores
    /\ fnCall = NoCall
    /\ classified = NotClassified
    /\ llmCall = NotGenerating
    /\ sink \in Sinks
    /\ configured = NotConfiguring

NextOutage == Step("w1")

\* Requests served one at a time, with or without a writable audit file.
SpecOutage == InitOutage /\ [][NextOutage]_vars

InitLlmOutage ==
    /\ InitStores
    /\ fnCall = NoCall
    /\ classified = NotClassified
    /\ llmCall \in {[NotGenerating EXCEPT !.settings = settings] :
                       settings \in LlmSettings}
    /\ sink \in Sinks
    /\ configured = NotConfiguring

\* generate_response on its own, with or without a writable audit file.
SpecLlmOutage == InitLlmOutage /\ [][NextLlm]_vars


\* ------------------------------------------------------------ properties
\* The requests that answer POST /confirm or POST /cancel for action `id`
\* with the literal true.
IsPopRequest(r, id) ==
    /\ r.kind \in {"confirm", "cancel"}
    /\ r.action_id = id
    /\ r.confirmed = "True"

\* C1: the handler of a tool that requires confirmation is invoked only by
\* a confirm request, for the action that request popped, which is out of the
\* pending set and carries status confirmed; no chat request and no
\* /tools/... request invokes such a handler.
WriteHandlerOnlyAfterConfirm ==
    /\ \A w \in Workers : \A i \in 1..Len(req[w].calls) :
        LET c == req[w].calls[i]
            tool == HandlerTool(c.handler)
        IN
        TOOL_HANDLERS[tool].requires_confirmation =>
            /\ req[w].kind = "confirm"
            /\ c.action_id # 0
            /\ c.action_id = req[w].action
            /\ c.action_id \in DOMAIN actions
            /\ actions[c.action_id].status = "confirmed"
            /\ actions[c.action_id].tool = tool
            /\ c.action_id \in DOMAIN popped
            /\ popped[c.action_id] = "confirmed"
            /\ \A k \in DOMAIN pending : k # c.action_id /\ pending[k] # c.action_id
    /\ \A id \in Ids :
        handlerRuns[id] > 0 => id \in DOMAIN popped /\ popped[id] = "confirmed"

\* C1 happens: a confirm request has invoked the handler of a tool that
\* requires confirmation.
WriteHandlerInvoked ==
    \E w \in Workers :
        /\ req[w].kind = "confirm"
        /\ Len(req[w].calls) = 1
        /\ HandlerTool(req[w].calls[1].handler) \in CONFIRMATION_REQUIRED_TOOLS

\* C2: once an action has been confirmed it stays confirmed and out of the
\* pending set, and every confirm or cancel request that names it with the
\* literal true afterwards ends with pending_action_not_found.
ConfirmedIsFinal ==
    [][\A id \in DOMAIN popped :
        popped[id] = "confirmed" =>
            /\ id \in DOMAIN popped'
            /\ popped'[id] = "confirmed"
            /\ id \notin DOMAIN pending'
            /\ (id \in DOMAIN actions' => actions'[id].status = "confirmed")
            /\ \A w \in Workers :
                (req[w].pc = "idle" /\ IsPopRequest(req'[w], id)) =>
                    /\ req'[w].pc = "done"
                    /\ req'[w].error = "pending_action_not_found"
                    /\ req'[w].action = 0]_vars

\* C2 happens: a request with the literal true on a confirmed action has
\* ended with pending_action_not_found.
ConfirmedAgainNotFound ==
    \E w \in Workers, id \in DOMAIN popped :
        /\ popped[id] = "confirmed"
        /\ IsPopRequest(req[w], id)
        /\ req[w].error = "pending_action_not_found"

\* C3: a confirm or cancel request that names an action and whose
\* "confirmed" is not the literal true ends at once with
\* confirmation_required, and neither it nor its return changes the pending
\* set, an action's status, the file or any other store.
UnconfirmedIsRejected ==
    [][\A w \in Workers :
        /\ (/\ req[w].pc = "idle"
            /\ req'[w].kind \in {"confirm", "cancel"}
            /\ req'[w].action_id # 0
            /\ req'[w].confirmed # "True") =>
                /\ req'[w].pc = "done"
                /\ req'[w].error = "confirmation_required"
                /\ req'[w].action = 0
                /\ req'[w].calls = << >>
                /\ req'[w].events = << >>
                /\ UNCHANGED Stores
        /\ (req[w].error = "confirmation_required" /\ req'[w] # req[w]) =>
                UNCHANGED Stores]_vars

\* C3 happens: a request with the truthy string 'yes' on a pending action
\* has been rejected with confirmation_required.
TruthyStringRejected ==
    \E w \in Workers :
        /\ req[w].kind \in {"confirm", "cancel"}
        /\ req[w].confirmed = "'yes'"
        /\ req[w].action_id \in DOMAIN pending
        /\ req[w].error = "confirmation_required"

\* C4: with confirm and cancel requests running concurrently, an action is
\* popped at most once and so handed to a handler at most once; of two
\* requests in flight on the same action at most one holds it, the other has
\* pending_action_not_found, and not-found is only ever reported for an
\* action that is not pending.
OneConcurrentWinner ==
    /\ \A id \in Ids : pops[id] <= 1 /\ handlerRuns[id] <= 1
    /\ \A w \in Workers, id \in Ids :
        IsPopRequest(req[w], id) =>
            \/ /\ req[w].action = id
               /\ req[w].error # "pending_action_not_found"
               /\ pops[id] = 1
            \/ /\ req[w].action = 0
               /\ req[w].error = "pending_action_not_found"
               /\ id \notin DOMAIN pending
    /\ \A w1, w2 \in Workers, id \in Ids :
        (w1 # w2 /\ IsPopRequest(req[w1], id) /\ IsPopRequest(req[w2], id)) =>
            ~(req[w1].action = id /\ req[w2].action = id)

\* C4 happens: two requests are in flight on the same action, one holding it
\* and the other with pending_action_not_found.
ConcurrentWinnerAndLoser ==
    \E w1, w2 \in Workers, id \in Ids :
        /\ w1 # w2
        /\ IsPopRequest(req[w1], id)
        /\ IsPopRequest(req[w2], id)
        /\ req[w1].action = id
        /\ req[w1].pc # "done"
        /\ req[w2].error = "pending_action_not_found"

\* C5: a chat request that created a pending action answers with status
\* pending_confirmation and with the action_id and tool of that action.
ChatAnswersPendingConfirmation ==
    \A w \in Workers :
        (/\ req[w].kind = "chat"
         /\ req[w].pc = "done"
         /\ req[w].error = Null
         /\ req[w].action # 0) =>
            /\ req[w].result.status = "pending_confirmation"
            /\ "pending_action" \in DOMAIN req[w].result
            /\ req[w].result.pending_action.action_id = req[w].action
            /\ req[w].result.pending_action.tool = req[w].reply.tool

\* C6: a confirm request that popped its action has, once execute_action is
\* over, invoked exactly one handler: that of the tool the action was created
\* for, with the payload it was created with.
ConfirmRunsItsHandlerOnce ==
    \A w \in Workers :
        (/\ req[w].kind = "confirm"
         /\ req[w].action # 0
         /\ req[w].pc \in {"record", "done"}) =>
            /\ Len(req[w].calls) = 1
            /\ HandlerTool(req[w].calls[1].handler) = origin[req[w].action].tool
            /\ req[w].calls[1].payload = origin[req[w].action].payload
            /\ handlerRuns[req[w].action] = 1

\* C7: no confirm of an action of a tool that requires confirmation ends
\* with action_not_implemented, and a confirmed tasks.create that returned
\* has put its task into the tasks store, where tasks.list finds it.
ConfirmReachesEveryHandler ==
    \A w \in Workers :
        (/\ req[w].kind = "confirm"
         /\ req[w].action # 0
         /\ req[w].pc = "done") =>
            /\ req[w].error # "action_not_implemented"
            /\ (origin[req[w].action].tool = "tasks.create" /\ req[w].error = Null) =>
                    origin[req[w].action].payload \in tasks

\* The chat requests on which the classifier is confident of a tool and the
\* model's reply proposes another one.
IsForcedMismatch(r) ==
    /\ r.kind = "chat"
    /\ r.reply.kind = "dict"
    /\ is_high_confidence(decide_tool(r.message))
    /\ decide_tool(r.message).tool # Null
    /\ r.reply.tool # decide_tool(r.message).tool

\* C8: on a forced-tool mismatch plan_chat returns requires_clarification,
\* has recorded exactly one audit event, orchestrator.mismatch with both
\* proposals, has invoked no handler and has created no pending action.
MismatchAsksForClarification ==
    \A w \in Workers :
        IsForcedMismatch(req[w]) =>
            /\ req[w].pc \in {"execute_plan", "done"}
            /\ req[w].plan.response = CLARIFICATION_PROMPT
            /\ req[w].plan.status = "requires_clarification"
            /\ Len(req[w].events) = 1
            /\ req[w].events[1].tool = "orchestrator.mismatch"
            /\ req[w].events[1].status = "fallback"
            /\ req[w].events[1].payload.decision_tool = decide_tool(req[w].message).tool
            /\ req[w].events[1].payload.forced_tool = decide_tool(req[w].message).tool
            /\ req[w].events[1].payload.llm_tool = req[w].reply.tool
            /\ req[w].calls = << >>
            /\ req[w].action = 0

\* C8 happens: the classifier says email.send at 0.85, the model proposes
\* calendar.create_event, and plan_chat has returned.
MismatchPlanned ==
    \E w \in Workers :
        /\ IsForcedMismatch(req[w])
        /\ req[w].message = {"enviar", "email"}
        /\ decide_tool(req[w].message).confidence = 85
        /\ req[w].reply.tool = "calendar.create_event"
        /\ req[w].pc = "execute_plan"

\* C9: the response of a chat request after a forced-tool mismatch has
\* status requires_clarification and carries the fallback marker, the
\* classifier decision and the model's tool.
ChatAnswersRequiresClarification ==
    \A w \in Workers :
        (IsForcedMismatch(req[w]) /\ req[w].pc = "done" /\ req[w].error = Null) =>
            /\ req[w].result.status = "requires_clarification"
            /\ "fallback" \in DOMAIN req[w].result
            /\ "orchestration" \in DOMAIN req[w].result
            /\ req[w].result.orchestration.llm_tool = req[w].reply.tool
            /\ req[w].result.orchestration.decision.tool = decide_tool(req[w].message).tool

\* The chat requests on which the classifier names no tool and the model's
\* reply proposes a tool of the dispatch table.
IsUnopposedAction(r) ==
    /\ r.kind = "chat"
    /\ r.reply.kind = "dict"
    /\ decide_tool(r.message).tool = Null
    /\ r.reply.tool \in DOMAIN TOOL_HANDLERS

\* C10: when the classifier names no tool and the model proposes one, the
\* request records exactly one audit event, orchestrator.low_confidence_action
\* with status observed, and the tool is dispatched: its handler is invoked
\* with the model's payload, or, when it requires confirmation, a pending
\* action of that tool and payload is created.
UnopposedActionProceeds ==
    \A w \in Workers :
        IsUnopposedAction(req[w]) =>
            /\ Len(req[w].events) = 1
            /\ req[w].events[1].tool = "orchestrator.low_confidence_action"
            /\ req[w].events[1].status = "observed"
            /\ req[w].events[1].payload.llm_tool = req[w].reply.tool
            /\ req[w].error \in {Null, "handler_error"}
            /\ IF TOOL_HANDLERS[req[w].reply.tool].requires_confirmation
               THEN /\ req[w].calls = << >>
                    /\ \/ req[w].pc = "create"
                       \/ /\ req[w].action \in DOMAIN pending
                          /\ actions[req[w].action].tool = req[w].reply.tool
                          /\ actions[req[w].action].payload = req[w].reply.payload
                          /\ actions[req[w].action].status = "pending_confirmation"
               ELSE /\ req[w].action = 0
                    /\ req[w].calls =
                          <<Call(TOOL_HANDLERS[req[w].reply.tool].handler,
                                 req[w].reply.payload, 0)>>

\* C10 happens: on a message without keywords the model proposed a tool
\* that requires confirmation and the pending action has been created.
UnopposedActionQueued ==
    \E w \in Workers :
        /\ IsUnopposedAction(req[w])
        /\ req[w].message = {}
        /\ TOOL_HANDLERS[req[w].reply.tool].requires_confirmation
        /\ req[w].action \in DOMAIN pending
        /\ req[w].pc = "done"

\* The chat requests whose model reply proposes no action: the "action" of
\* the reply is missing, null, or empty (plan_chat's `if action:` is false).
ProposesNoAction(r) ==
    /\ r.kind = "chat"
    /\ r.error # "missing_message"
    /\ r.error # "llm_request_failed"
    /\ r.pc # "idle"
    /\ ~Truthy(r.reply)

\* C11: a chat request whose model reply proposes no action invokes no
\* handler, creates no pending action, records no audit event, and returns
\* status ok with the model's response text, whatever the classifier decided.
NoActionPassesThrough ==
    \A w \in Workers :
        ProposesNoAction(req[w]) =>
            /\ req[w].calls = << >>
            /\ req[w].events = << >>
            /\ req[w].action = 0
            /\ req[w].error = Null
            /\ req[w].pc = "done" =>
                   req[w].result = [status |-> "ok", response |-> req[w].response]

\* The (domain, action) keyword pairs of the classifier, each with its tool
\* and its weight in hundredths.
KeywordPair(domain, action, tool, weight) ==
    [domain |-> domain, action |-> action, tool |-> tool, weight |-> weight]

EmailWords == {"email", "e-mail", "gmail", "mensagem"}
CalendarWords == {"agenda", "calendario", "calendário"}
NotesWords == {"nota", "notas", "anotação", "anotacoes"}
TasksWords == {"tarefa", "tarefas", "to-do", "todo"}
SpotifyWords == {"spotify", "música", "musica", "som"}
ListWords == {"listar", "mostrar", "ver", "próxim"}
CreateWords == {"criar", "agendar", "marcar"}

KeywordPairs ==
    {KeywordPair(EmailWords, {"enviar", "mande", "dispare", "envie"}, "email.send", 85),
     KeywordPair(EmailWords, {"rascunho", "draft", "esboço"}, "email.draft", 85),
     KeywordPair(EmailWords, {"ler", "abrir", "mostrar", "ver"}, "email.read", 80),
     KeywordPair(EmailWords, {"buscar", "procurar", "pesquisar", "encontr"},
                 "email.search", 80),
     KeywordPair(CalendarWords, {"alterar", "mudar", "remarcar", "editar"},
                 "calendar.modify_event", 85),
     KeywordPair(CalendarWords, CreateWords, "calendar.create_event", 85),
     KeywordPair(CalendarWords, ListWords, "calendar.list_events", 80),
     KeywordPair(NotesWords, CreateWords, "notes.create", 80),
     KeywordPair(TasksWords, CreateWords, "tasks.create", 80),
     KeywordPair(TasksWords, ListWords, "tasks.list", 75),
     KeywordPair(SpotifyWords, {"pausar", "pause", "parar"}, "spotify.pause", 85),
     KeywordPair(SpotifyWords, {"pular", "próxima", "proxima", "skip"},
                 "spotify.skip", 85),
     KeywordPair(SpotifyWords, {"tocar", "play", "reproduzir", "iniciar"},
                 "spotify.play", 85)}

\* A keyword of the set occurs in the case-folded message.
Occurs(message, keywords) ==
    \E word \in message, keyword \in keywords : keyword \in Fragments(Lower(word))

\* The pairs a message matches: a domain keyword and an action keyword of it.
PairsMatched(message) ==
    {pair \in KeywordPairs :
        Occurs(message, pair.domain) /\ Occurs(message, pair.action)}

\* C12: on a message that matches exactly one (domain, action) keyword pair
\* every call of decide_tool returns that pair's tool with that pair's weight,
\* and a second call on the same message returns what the first one returned.
SinglePairDecides ==
    LET pairs == PairsMatched(classified.message) IN
    Cardinality(pairs) = 1 =>
        \A i \in 1..Len(classified.decisions) :
            /\ \E pair \in pairs :
                /\ classified.decisions[i].tool = pair.tool
                /\ classified.decisions[i].confidence = pair.weight
            /\ classified.decisions[i] = classified.decisions[1]

\* C12 happens: decide_tool was called twice on a message of mixed case that
\* matches the pair of email.send only.
SinglePairDecidedTwice ==
    /\ classified.message = {"Enviar", "EMAIL", "hoje"}
    /\ Cardinality(PairsMatched(classified.message)) = 1
    /\ Len(classified.decisions) = 2
    /\ classified.decisions[2].tool = "email.send"
    /\ classified.decisions[2].confidence = 85

\* C13: on a message that matches two or more tools decide_tool returns no
\* tool, confidence 0.45, which is not high confidence, and a reason made of
\* the prefix ambiguous_tool_match and the list of every matched tool.
SeveralPairsAreAmbiguous ==
    LET pairs == PairsMatched(classified.message) IN
    Cardinality(pairs) >= 2 =>
        \A i \in 1..Len(classified.decisions) :
            LET decision == classified.decisions[i] IN
            /\ decision.tool = Null
            /\ decision.confidence = 45
            /\ ~is_high_confidence(decision)
            /\ decision.reason[1] = "ambiguous_tool_match"
            /\ Len(decision.reason) = 1 + Cardinality(pairs)
            /\ {decision.reason[j] : j \in 2..Len(decision.reason)}
                   = {pair.tool : pair \in pairs}

\* C13 happens: "remarcar agenda" holds marcar and remarcar, and decide_tool
\* has reported the two calendar tools it matches.
TwoCalendarToolsReported ==
    /\ classified.message = {"remarcar", "agenda"}
    /\ Len(classified.decisions) >= 1
    /\ classified.decisions[1].reason
           = <<"ambiguous_tool_match", "calendar.modify_event", "calendar.create_event">>

\* C14: on a message that matches no tool (no domain keyword, or a domain
\* keyword without an action keyword of it) decide_tool returns no tool,
\* reason no_tool_match and confidence 0.0, which is not high confidence; and
\* every call of decide_tool returns a decision.
NoPairIsNoToolMatch ==
    \A i \in 1..Len(classified.decisions) :
        /\ DOMAIN classified.decisions[i] = {"tool", "reason", "confidence"}
        /\ PairsMatched(classified.message) = {} =>
            /\ classified.decisions[i].tool = Null
            /\ classified.decisions[i].reason = <<"no_tool_match">>
            /\ classified.decisions[i].confidence = 0
            /\ ~is_high_confidence(classified.decisions[i])

\* C14 happens: a message with a domain keyword and the action keyword of
\* another domain only has been answered with no_tool_match.
DomainWithoutItsAction ==
    /\ classified.message = {"email", "pausar"}
    /\ Len(classified.decisions) >= 1
    /\ classified.decisions[1].reason = <<"no_tool_match">>

\* The calls of generate_response that got past the configuration checks
\* and are over: a reply, UpstreamError or DecodeError.
IsClassifiedEnd(call) ==
    /\ call.pc = "done"
    /\ call.result \in {"return", "llm_request_failed", "llm_bad_response"}

\* C15: a call of generate_response that got past the configuration checks
\* and ended with a reply, with llm_request_failed or with llm_bad_response
\* has written exactly one telemetry record: ok for a reply, error otherwise.
OneTelemetryRecordPerCall ==
    IsClassifiedEnd(llmCall) =>
        llmCall.telemetry = <<IF llmCall.result = "return" THEN "ok" ELSE "error">>

\* An HTTP 429 or 5xx response.
IsTransient(outcome) ==
    outcome.kind = "status" /\ (outcome.code = 429 \/ outcome.code >= 500)

\* Every response of the call so far was a 429 or a 5xx.
OnlyTransientResponses(call) ==
    /\ Len(call.sent) >= 1
    /\ \A i \in 1..Len(call.sent) : IsTransient(call.sent[i].outcome)

\* C16: while every response of a call is a retryable error the call goes on
\* without a telemetry record until it has made retry_count+1 tries; then it
\* fails with llm_request_failed and exactly one error telemetry record.
RetryExhaustionFailsOnce ==
    OnlyTransientResponses(llmCall) =>
        LET tries == Len(llmCall.sent)
            budget == RetryCount(llmCall.settings)
        IN
        /\ tries <= budget + 1
        /\ tries <= budget =>
            /\ llmCall.pc = "retry"
            /\ llmCall.result = Null
            /\ llmCall.telemetry = << >>
        /\ tries = budget + 1 =>
            /\ llmCall.pc = "done"
            /\ llmCall.result = "llm_request_failed"
            /\ llmCall.telemetry = <<"error">>

\* C16 happens: three consecutive 503 with a retry budget of 2.
ThreeTimes503 ==
    /\ llmCall.settings.llm_retry_count = 2
    /\ Len(llmCall.sent) = 3
    /\ \A i \in 1..3 : llmCall.sent[i].outcome = Status(503)
    /\ llmCall.result = "llm_request_failed"

TransientFailureOnlyAfterBudget ==
    (/\ llmCall.pc = "done"
     /\ llmCall.result = "llm_request_failed"
     /\ IsTransient(llmCall.sent[Len(llmCall.sent)].outcome)) =>
        llmCall.attempt = RetryCount(llmCall.settings)

\* C19: the first request of a call is the structured one (native tool
\* definitions, JSON-schema response format), a prompt-engineered request is
\* sent only right after a structured request that failed, and the call
\* makes no more than retry_count+1 structured attempts.
StructuredFirstThenLegacy ==
    /\ \A i \in 1..Len(llmCall.sent) :
        ~llmCall.sent[i].payload.tools =>
            /\ i > 1
            /\ llmCall.sent[i - 1].payload.tools
            /\ llmCall.sent[i - 1].outcome # Status(200)
    /\ Cardinality({i \in 1..Len(llmCall.sent) : llmCall.sent[i].payload.tools})
           <= RetryCount(llmCall.settings) + 1

\* The 200 responses that neither decoding path can normalize: the content
\* holds no JSON object, and there is no content and no well-formed tool call.
Undecodable ==
    {body \in Bodies :
        /\ body.json /\ body.choices = "list" /\ body.message = "dict"
        /\ body.content # "object"
        /\ body.content = "prose" \/ body.tool_calls # "valid"}

\* C20: a call whose last response cannot be normalized by the text path
\* nor by the tool-call path fails with llm_bad_response.
UndecodableIsBadResponse ==
    (llmCall.pc = "done" /\ llmCall.body \in Undecodable) =>
        llmCall.result = "llm_bad_response"

\* C21: a call of generate_response with the endpoint, the credentials or
\* the model identifier unset ends with llm_not_configured, and has sent no
\* request, used no retry, slept no backoff and written no telemetry.
UnconfiguredFailsBeforeAnyRequest ==
    (/\ llmCall.pc # "idle"
     /\ \/ llmCall.settings.llm_base_url \in {Null, ""}
        \/ llmCall.settings.llm_api_key \in {Null, ""}
        \/ llmCall.settings.llm_model \in {Null, ""}) =>
        /\ llmCall.pc = "done"
        /\ llmCall.result = "llm_not_configured"
        /\ llmCall.sent = << >>
        /\ llmCall.attempt = 0
        /\ llmCall.slept = << >>
        /\ llmCall.telemetry = << >>

\* C21 happens: a call with only the model identifier unset has failed.
FailedForMissingModel ==
    /\ llmCall.settings.llm_base_url = "url"
    /\ llmCall.settings.llm_api_key = "key"
    /\ llmCall.settings.llm_model = Null
    /\ llmCall.settings.llm_retry_count = 2
    /\ llmCall.result = "llm_not_configured"

\* A step that is a restart of the process with the file intact.
IsRestart == startup'.loads = startup.loads + 1 /\ startup'.damage = Null

\* C22: a restart after create, confirm and cancel requests, with the file
\* as the store wrote it, brings the store up with the pending set that was
\* in memory just before: the same actions with the same fields, and none
\* of the actions confirmed or cancelled so far.
RestartKeepsPendingSet ==
    [][IsRestart =>
        /\ startup'.error = Null
        /\ \A w \in Workers : req'[w] = Idle
        /\ PendingSet' = PendingSet
        /\ \A id \in DOMAIN popped : id \notin DOMAIN pending']_vars

\* C22 happens: an action loaded from the file by a restart has been
\* confirmed after it, and its handler has run.
ConfirmedAfterRestart ==
    \E w \in Workers :
        /\ startup.loads > 1
        /\ startup.error = Null
        /\ req[w].kind = "confirm"
        /\ req[w].pc = "done"
        /\ req[w].error = Null
        /\ req[w].action \in startup.loaded
        /\ handlerRuns[req[w].action] = 1

\* C23: whenever every create, confirm and cancel request served at once
\* has returned, the file holds exactly the pending set in memory: no
\* created action is missing from it and no confirmed or cancelled action
\* is back in it.
FileIsPendingSetAtRest ==
    (\A w \in Workers : req[w].pc = "idle") => disk = PendingSet

\* C24: a start of the process that finds the pending-actions file damaged
\* fails with pending_actions_store_corrupt: no worker serves a request, no
\* pending set is in memory, and the file stays as the start found it.
DamagedFileFailsAsCorrupt ==
    startup.damage # Null =>
        /\ startup.error = "pending_actions_store_corrupt"
        /\ \A w \in Workers : req[w] = Down
        /\ pending = << >>
        /\ disk = startup.file

\* C25: from the step on in which a cancel request with the literal true
\* pops an action, the action is cancelled for good: it is not in the
\* pending set, its handler has not run and does not run, once the cancel's
\* write is done it is not in the file, restarts included, and a confirm or
\* cancel request that names it ends with pending_action_not_found.
CancelledIsFinal ==
    [][\A id \in DOMAIN popped' :
        popped'[id] = "cancelled" =>
            /\ id \notin DOMAIN pending'
            /\ handlerRuns'[id] = 0
            /\ pops'[id] = 1
            /\ (\A w \in Workers : req'[w].pc \notin {"snapshot", "write"}) =>
                   id \notin DOMAIN disk'
            /\ (id \in DOMAIN popped /\ popped[id] = "cancelled") =>
                   \A w \in Workers :
                       (req[w].pc = "idle" /\ IsPopRequest(req'[w], id)) =>
                           /\ req'[w].pc = "done"
                           /\ req'[w].error = "pending_action_not_found"
                           /\ req'[w].calls = << >>]_vars

\* C25 happens: a confirm request with the literal true on a cancelled
\* action has ended with pending_action_not_found, in a process that has
\* restarted and did not find the action in the file.
CancelledThenConfirmNotFound ==
    \E w \in Workers, id \in DOMAIN popped :
        /\ popped[id] = "cancelled"
        /\ startup.loads > 1
        /\ id \notin startup.loaded
        /\ IsPopRequest(req[w], id)
        /\ req[w].kind = "confirm"
        /\ req[w].error = "pending_action_not_found"

\* C26: no request ends with the error of the audit file's write: a tool
\* request, a chat request or a confirm request that records an event while
\* the file cannot be written ends as it does when the file can be written.
AuditFailureNeverFailsRequest ==
    \A w \in Workers : req[w].pc = "done" => req[w].error # "OSError"

\* The entries of a history (none when it is no list), and the positions
\* of its window: the _MAX_HISTORY_MESSAGES most recent ones.
EntriesOf(history) == IF history.type = "list" THEN history.items ELSE << >>

Recent(entries) ==
    {i \in 1..Len(entries) : i > Len(entries) - _MAX_HISTORY_MESSAGES}

\* The positions of the window that hold a turn of the user or of the
\* assistant whose content is a string with something but white space in it.
ValidRecent(entries) ==
    {i \in Recent(entries) :
        /\ entries[i].type = "dict"
        /\ entries[i].role \in {"user", "assistant"}
        /\ entries[i].content.type = "str"
        /\ \E k \in 1..Len(entries[i].content.text) : entries[i].content.text[k] # Ws}

\* `text` without the white space at its ends.
Trimmed(text) ==
    LET inked == {k \in 1..Len(text) : text[k] # Ws}
        first == CHOOSE k \in inked : \A j \in inked : k <= j
        last == CHOOSE k \in inked : \A j \in inked : k >= j
    IN SubSeq(text, first, last)

TextIn(content) ==
    strip(IF content.type = "list" THEN Joined(content.items) ELSE str(content))

IsObject(parse) == parse.ok /\ parse.type = "dict"

\* The three stages on a text: the text itself as JSON, the inside of its
\* fenced block, and what lies between its first "{" and its last "}".
Stages(text) ==
    <<json_loads(text),
      IF fenced_match(text).found THEN json_loads(fenced_match(text).group) ELSE NotParsed,
      IF braces_match(text).found THEN json_loads(braces_match(text).group) ELSE NotParsed>>

\* C28: _decode_llm_json returns the object of the first of the three
\* stages that yields a JSON object, whatever the stages before it did
\* (failed, or yielded a value that is no object), and raises
\* JSONDecodeError only when none of them yields an object.
FirstStageWithObjectWins ==
    (/\ fnCall.fn = "decode_llm_json"
     /\ fnCall.returned
     /\ fnCall.output.raised # "TypeError") =>
        LET stages == Stages(TextIn(fnCall.input))
            yielding == {n \in 1..3 : IsObject(stages[n])}
        IN
        IF yielding = {}
        THEN fnCall.output = Raised("JSONDecodeError")
        ELSE \E n \in yielding :
                /\ \A o \in yielding : n <= o
                /\ fnCall.output = Returned(stages[n].value)

\* C29: _decode_llm_json returns the reply itself for the serialization
\* of a canonical reply, for that serialization in a markdown fence, for
\* it after some prose, and for a list of parts whose texts join to it.
EveryFormDecodesToTheReply ==
    \A reply \in CanonicalReplies :
        (/\ fnCall.fn = "decode_llm_json"
         /\ fnCall.returned
         /\ fnCall.input \in {Plain(reply), Fenced(reply, Fence), Fenced(reply, FenceJson),
                               AfterProse(reply), InParts(reply)}) =>
            fnCall.output = Returned(reply)

\* The calls of a message: its tool calls, else its function calls; the
\* first of them; where its name and its arguments are looked up.
CallsIn(message) ==
    IF bool(message.tool_calls) THEN message.tool_calls ELSE message.function_calls

HasCalls(message) == CallsIn(message).type = "list" /\ CallsIn(message).items # << >>

FirstCall(message) == CallsIn(message).items[1]

FunctionIn(call) == IF call.has_function THEN call.function ELSE call

NameIn(call) == IF bool(FunctionIn(call).name) THEN FunctionIn(call).name ELSE call.name

HasArguments(call) == FunctionIn(call).has_arguments \/ call.has_arguments

ArgumentsIn(call) ==
    IF FunctionIn(call).has_arguments THEN FunctionIn(call).arguments ELSE call.arguments

\* A call that is an object, with a "function" that is one if it has one,
\* and with a name that is a string with something but white space in it.
IsNamedCall(call) ==
    /\ call.type = "dict"
    /\ FunctionIn(call).type = "dict"
    /\ NameIn(call).type = "str"
    /\ \E n \in 1..Len(NameIn(call).text) : NameIn(call).text[n] # Ws

\* Arguments that are an object, or a string that is the JSON of one.
IsObjectBlob(arguments) ==
    \/ arguments.type = "dict"
    \/ arguments.type = "str" /\ IsObject(json_loads(arguments.text))

ObjectIn(arguments) ==
    IF arguments.type = "dict" THEN arguments.value ELSE json_loads(arguments.text).value

\* Arguments that are null or the empty string.
IsEmptyBlob(arguments) == arguments = PyNone \/ arguments = PyStr(<< >>)

\* What _parse_llm_choice has returned for a message: for one with content,
\* what _decode_llm_json gives for the content; for one without, the
\* action of its first call when the call is named and its arguments are
\* an object, a JSON-encoded one, or left out (and, if `lenient`, null or
\* the empty string: then the payload is empty); JSONDecodeError otherwise.
ChoiceIsRead(lenient) ==
    (/\ fnCall.fn = "parse_llm_choice"
     /\ fnCall.returned
     /\ fnCall.input.type = "dict") =>
        LET message == fnCall.input
            call == FirstCall(message)
            empty == ~HasArguments(call) \/ (lenient /\ IsEmptyBlob(ArgumentsIn(call)))
        IN
        IF bool(message.content)
        THEN fnCall.output = decode_llm_json(message.content)
        ELSE IF /\ HasCalls(message)
                /\ IsNamedCall(call)
                /\ empty \/ IsObjectBlob(ArgumentsIn(call))
        THEN fnCall.output =
                 Returned([response |-> "",
                           action |-> DictAction(NameIn(call).text[1].tool,
                                                 IF empty THEN "{}"
                                                 ELSE ObjectIn(ArgumentsIn(call)).payload)])
        ELSE fnCall.output = Raised("JSONDecodeError")

\* C30 as stated: _parse_llm_choice returns what the text decoder returns
\* for the content of a message that has content, its tool calls ignored;
\* for a message without content it reads the first tool or function call
\* only and returns an empty response with the call's tool and payload,
\* the arguments parsed when they are a JSON-encoded string; and it raises
\* JSONDecodeError for a call without a name, for arguments that are not an
\* object, and for a message with neither content nor calls.
ChoiceReadsContentOrFirstCall == ChoiceIsRead(FALSE)

\* C30 as amended: the same, except that arguments that are null or the
\* empty string are read as an empty payload and raise nothing.
ChoiceReadsContentOrFirstCallLeniently == ChoiceIsRead(TRUE)

\* C30 happens: a message without content whose first call has the empty
\* string for arguments, followed by another call, has given the first
\* call's tool with an empty payload.
EmptyArgumentsGiveEmptyPayload ==
    /\ fnCall.fn = "parse_llm_choice"
    /\ fnCall.returned
    /\ fnCall.input.type = "dict"
    /\ ~bool(fnCall.input.content)
    /\ HasCalls(fnCall.input)
    /\ Len(CallsIn(fnCall.input).items) = 2
    /\ IsNamedCall(FirstCall(fnCall.input))
    /\ HasArguments(FirstCall(fnCall.input))
    /\ ArgumentsIn(FirstCall(fnCall.input)) = PyStr(<< >>)
    /\ fnCall.output = Returned([response |-> "", action |-> DictAction("email.send", "{}")])

\* C31: the error summary stored in an error telemetry record of
\* generate_response never exceeds 180 characters, whichever failure is
\* summarized (HTTP status error, transport failure, decode failure) and
\* however long the message of the underlying exception is.
ErrorSummaryAtMost180 ==
    (fnCall.fn = "record_llm_event" /\ fnCall.returned) => fnCall.output <= 180

\* The chat requests whose reply names a tool of the dispatch table that
\* does not require confirmation, and which plan_chat does not turn down
\* as a mismatch with the classifier's tool.
IsAcceptedReadTool(r) ==
    /\ r.kind = "chat"
    /\ r.reply.kind = "dict"
    /\ r.reply.tool \in DOMAIN TOOL_HANDLERS
    /\ ~TOOL_HANDLERS[r.reply.tool].requires_confirmation
    /\ ~IsMismatch(ForcedTool(decide_tool(r.message)), r.reply.tool)

\* C32: a chat request that ends with the model's tool accepted, the tool
\* not requiring confirmation, has run the tool's handler during the request
\* (once, with the model's payload) and answers with status ok, the
\* handler's result as tool_result, and the model's response text.
AcceptedReadToolAnswersWithResult ==
    \A w \in Workers :
        (IsAcceptedReadTool(req[w]) /\ req[w].pc = "done" /\ req[w].error = Null) =>
            /\ req[w].calls =
                  <<Call(TOOL_HANDLERS[req[w].reply.tool].handler, req[w].reply.payload, 0)>>
            /\ req[w].result.status = "ok"
            /\ req[w].result.response = req[w].response
            /\ "tool_result" \in DOMAIN req[w].result
            /\ req[w].result.tool_result.status = "ok"

\* The requests that execute a tool which does not require confirmation:
\* its direct route, or a chat request whose reply names it and is accepted.
IsReadToolRequest(r) ==
    \/ /\ r.kind = "tool"
       /\ r.tool \in DOMAIN TOOL_HANDLERS
       /\ ~TOOL_HANDLERS[r.tool].requires_confirmation
    \/ IsAcceptedReadTool(r)

\* C33: no step of a request that executes a tool which does not require
\* confirmation, through its direct route or through chat, changes the
\* pending-action set or its file, draws an action id or refers to a
\* pending action: read tools never create a pending action.
ReadToolsLeavePendingSet ==
    [][\A w \in Workers :
        (req'[w] # req[w] /\ (IsReadToolRequest(req[w]) \/ IsReadToolRequest(req'[w]))) =>
            /\ UNCHANGED <<uuids, pending, disk>>
            /\ PendingSet' = PendingSet
            /\ req[w].action = 0
            /\ req'[w].action = 0]_vars

\* C33 happens: while an action is pending, a chat request has run the
\* handler of a read tool the model proposed.
ReadToolRanBesidePending ==
    \E w \in Workers :
        /\ IsAcceptedReadTool(req[w])
        /\ req[w].calls # << >>
        /\ req[w].pc = "done"
        /\ req[w].error = Null
        /\ DOMAIN pending # {}

StoreNames == {"pending", "notes", "tasks", "memory", "audit"}

\* How often a run has configured a store.
TimesConfigured(store) ==
    Cardinality({i \in DOMAIN configured.calls : configured.calls[i].store = store})

\* C35: one run of the startup configuration configures each of the five
\* stores (pending actions, notes, tasks, memory, audit) exactly once.
EachStoreConfiguredOnce ==
    configured.run # Null => \A store \in StoreNames : TimesConfigured(store) = 1

\* C36: a decision of the classifier names a tool if and only if it is of
\* high confidence: a decision with a tool has a weight of at least 0.75,
\* one without a tool is the ambiguous one (0.45) or the no-match one (0.0);
\* so the tool plan_chat forces on the model is the decision's tool.
ToolIffHighConfidence ==
    \A i \in 1..Len(classified.decisions) :
        LET decision == classified.decisions[i] IN
        /\ decision.tool # Null <=> is_high_confidence(decision)
        /\ decision.tool # Null => decision.confidence >= 75
        /\ decision.tool = Null => decision.confidence \in {0, 45}
        /\ ForcedTool(decision) = decision.tool

\* C36 happens: the decision for tasks.list, whose weight is the threshold
\* itself, and so of high confidence.
ThresholdWeightDecided ==
    /\ Len(classified.decisions) > 0
    /\ classified.decisions[1].tool = "tasks.list"
    /\ classified.decisions[1].confidence = HIGH_CONFIDENCE_THRESHOLD
    /\ ForcedTool(classified.decisions[1]) = "tasks.list"

\* C37: when the handler of an action is invoked by a confirm, the action
\* has been removed from the pending set and the file has been written
\* without it; and so, with the process killed and restarted at any point,
\* the handler of one action_id is invoked at most once over the history.
HandlerOnlyAfterPersistedRemoval ==
    [][\A id \in Ids :
        /\ handlerRuns'[id] # handlerRuns[id] =>
              /\ id \notin DOMAIN pending
              /\ id \notin DOMAIN disk
              /\ handlerRuns[id] = 0
        /\ handlerRuns'[id] <= 1]_vars

\* C37 happens: the process was killed after a confirm had popped an action
\* and before its removal was written; the restarted process found the
\* action in the file, and a second confirm popped it and invoked its handler.
ConfirmedAgainAfterCrash ==
    \E id \in Ids :
        /\ pops[id] = 2
        /\ handlerRuns[id] = 1
        /\ startup.loads > 1
        /\ id \notin DOMAIN disk

\* The confirm requests whose execute_action raised: the handler raised, or
\* the tool is one execute_action does not implement.
IsFailedExecution(r) ==
    /\ r.kind = "confirm"
    /\ r.pc = "done"
    /\ r.action # 0
    /\ r.error \in {"handler_error", "action_not_implemented"}

\* C38: when the handler raises after a successful confirm, the action
\* stays out of the pending set and out of the file and no "confirmed"
\* audit event is recorded for it; and a later confirm that names a
\* confirmed action, whatever became of its handler, is not retried: it
\* ends with pending_action_not_found and invokes nothing.
FailedExecutionStaysConfirmed ==
    [][/\ \A w \in Workers :
            IsFailedExecution(req[w]) =>
                /\ req[w].action \notin DOMAIN pending
                /\ req[w].action \notin DOMAIN disk
                /\ popped[req[w].action] = "confirmed"
                /\ \A i \in DOMAIN req[w].events : req[w].events[i].status # "confirmed"
                /\ req[w].action \notin DOMAIN pending'
                /\ req[w].action \notin DOMAIN disk'
       /\ \A id \in DOMAIN popped :
            popped[id] = "confirmed" =>
                /\ id \notin DOMAIN pending'
                /\ \A w \in Workers :
                    (/\ req[w].pc = "idle"
                     /\ req'[w].kind = "confirm"
                     /\ req'[w].action_id = id
                     /\ req'[w].confirmed = "True") =>
                        /\ id \notin DOMAIN disk'
                        /\ req'[w].pc = "done"
                        /\ req'[w].error = "pending_action_not_found"
                        /\ req'[w].calls = << >>
                        /\ handlerRuns' = handlerRuns]_vars

\* C38 happens: an action of tasks.create was confirmed, execute_action
\* raised without invoking a handler, and a later confirm of the same id
\* has ended with pending_action_not_found.
FailedExecutionNotRetried ==
    \E w \in Workers, id \in DOMAIN popped :
        /\ popped[id] = "confirmed"
        /\ handlerRuns[id] = 0
        /\ req[w].kind = "confirm"
        /\ req[w].action_id = id
        /\ req[w].confirmed = "True"
        /\ req[w].error = "pending_action_not_found"
        /\ id \notin DOMAIN pending
        /\ id \notin DOMAIN disk

\* C39: one chat request invokes at most one tool handler and creates at
\* most one pending action, and never both: a step of the request that
\* invokes a handler or draws an action id finds that the request has
\* invoked and created nothing before, so execute_chat_plan never
\* dispatches or queues what plan_chat has executed or queued.
ChatDispatchesOnce ==
    [][\A w \in Workers :
        (req'[w].kind = "chat" /\ req'[w] # req[w]) =>
            /\ Len(req'[w].calls) <= 1
            /\ (req'[w].calls # req[w].calls \/ req'[w].pc = "create") =>
                  /\ req[w].calls = << >>
                  /\ req[w].action = 0
            /\ req'[w].action # req[w].action =>
                  /\ req[w].action = 0
                  /\ req'[w].calls = << >>
                  /\ uuids' = uuids + 1
            /\ req'[w].action = req[w].action => uuids' = uuids]_vars

\* C39 happens: plan_chat has run the handler of the model's tool, and
\* execute_chat_plan has returned without running anything again.
PlanRanExecuteReturned ==
    \E w \in Workers :
        /\ req[w].kind = "chat"
        /\ req[w].pc = "done"
        /\ req[w].stage = "execute"
        /\ req[w].error = Null
        /\ Len(req[w].calls) = 1

\* The chat requests whose reply proposes a tool that is not in the
\* dispatch table.
ProposesUnknownTool(r) ==
    /\ r.kind = "chat"
    /\ r.reply.kind = "dict"
    /\ r.reply.tool # Null
    /\ r.reply.tool \notin DOMAIN TOOL_HANDLERS

\* What every step of such a request leaves alone: no handler is invoked,
\* no pending action is created, the pending set and its file stay.
NothingDispatched(w) ==
    /\ req'[w].calls = << >>
    /\ req'[w].action = 0
    /\ req'[w].pc # "create"
    /\ UNCHANGED <<uuids, pending, disk, actions>>

\* C40 as stated: when the model proposes a tool that is not in the
\* dispatch table, the chat request fails with unsupported_tool, invokes no
\* handler and leaves the pending-action set unchanged.
UnknownToolIsUnsupported ==
    [][\A w \in Workers :
        (req'[w] # req[w] /\ ProposesUnknownTool(req'[w])) =>
            /\ NothingDispatched(w)
            /\ req'[w].pc = "done"
            /\ req'[w].error = "unsupported_tool"]_vars

\* C40 as amended: when the model proposes a tool that is not in the
\* dispatch table, the chat request invokes no handler and leaves the
\* pending-action set unchanged; it fails with unsupported_tool unless the
\* classifier forced a tool on the model, and then the proposal is a
\* mismatch, which plan_chat answers with requires_clarification.
UnknownToolIsUnsupportedUnlessForced ==
    [][\A w \in Workers :
        (req'[w] # req[w] /\ ProposesUnknownTool(req'[w])) =>
            /\ NothingDispatched(w)
            /\ IF ForcedTool(decide_tool(req'[w].message)) = Null
               THEN /\ req'[w].pc = "done"
                    /\ req'[w].error = "unsupported_tool"
               ELSE /\ req'[w].error = Null
                    /\ req'[w].plan.status = "requires_clarification"]_vars

\* C40 happens: on a message the classifier has no tool for, the model
\* proposed files.delete and the request has failed with unsupported_tool.
UnknownToolRejected ==
    \E w \in Workers :
        /\ ProposesUnknownTool(req[w])
        /\ req[w].reply.tool = "files.delete"
        /\ ForcedTool(decide_tool(req[w].message)) = Null
        /\ req[w].pc = "done"
        /\ req[w].error = "unsupported_tool"
        /\ req[w].calls = << >>

====
